---- MODULE Spec2Model ----
(***************************************************************************)
(* Model of the Mermaid repair pipeline of obsidian-mermaid-zoom-plugin:   *)
(* the two fix commands (runFixWithGemini, runFixAllFilesWithGemini) with  *)
(* their retry loops, the preview modal and the writing of replacements,   *)
(* and the pure text functions they rest on (applying replacements,        *)
(* extracting blocks, normalizing).                                        *)
(***************************************************************************)
EXTENDS Integers, Sequences, FiniteSets, TLC

(***************************************************************************)
(* Bounds of the model.                                                    *)
(***************************************************************************)
\* broken blocks found in one document
MaxBlocks == 2
\* markdown files of the vault (fix-all command)
MaxFiles == 2
\* clicks on the buttons of a modal that was already asked to close
MaxLateClicks == 1
\* characters of the text handed to the two appliers
MaxDocLen == 3
\* replacements in the list handed to the two appliers
MaxReps == 2
\* pieces a document is put together from
MaxPieces == 4
\* pieces the info string of an opening fence is put together from
MaxTagPieces == 3
\* pieces a text to normalize is put together from
MaxNormPieces == 5
\* pieces a text given to the validator's normalization is put together from
MaxValPieces == 5
\* calls of validateMermaidAsync that can be under way at once
MaxValidations == 2
\* calls of geminiFixSingle that can be under way at once
MaxClientCalls == 2
\* pieces the original block is put together from
MaxOrigPieces == 3
\* pieces the corrected text is put together from
MaxFixedPieces == 2
\* pieces the block given to geminiFixSingle is put together from
MaxCodePieces == 2
\* pieces the text of a response is put together from
MaxRawPieces == 2
(***************************************************************************)
(* Program constants.                                                      *)
(***************************************************************************)
\* const maxAttempts = 5 in runFixWithGemini
maxAttemptsFix == 5
\* const maxAttempts = 3 in runFixAllFilesWithGemini
maxAttemptsAll == 3

VARIABLES
    mode,          \* the command that runs: "fix" or "fixAll" ("none": no command)
    pc,            \* position of the command's async function
    applyMode,     \* this.settings.applyMode: "confirm" or "auto"
    activeFile,    \* app.workspace.getActiveFile(): "A" or "B"
    currentFile,   \* const currentFile of runFixWithGemini
    nFiles,        \* markdownFiles.length (fixAll), 1 for fix
    file,          \* index of the file being processed
    errCount,      \* errorBlocks.length of the file being processed
    blk,           \* index in errorBlocks of the block being processed
    attempt,       \* let attempt of the attempt loop
    success,       \* let success
    cancelled,     \* let cancelled
    autoApply,     \* let autoApply
    replacements,  \* const replacements of the file being processed: block indexes
    inFlight,      \* network requests (fetch) in flight
    memoNonEmpty,  \* fixMemo holds at least one entry
    openModals,    \* FixPreviewModal instances shown, by block of the current file
    closingModals, \* modals asked to close whose buttons are still in the page
    oldModals,     \* a closing modal of an earlier file is still in the page
    saving,        \* onAutoApply continuations awaiting saveData: <<file, block>>
    lateClicks,    \* clicks made so far on modals that were asked to close
    written,       \* the list applyReplacementsReverse was called with, <<>> if none
    modified,      \* files written with vault.modify (fixAll)
    calls,         \* history: correction calls made for the current block
    lastResp,      \* history: outcome of the correction call that just ended
    hardAbort,     \* history: a correction call failed with a hard error
    phase,         \* history: how far each block of the current file got
    exhausted,     \* history: blocks of the current file whose attempts were all rejected
    oracleUp,      \* window.mermaid is there with a parse or render entry point
    docEdited,     \* the document was changed since the command read it
    unavailable,   \* history: a validation returned the oracle-unavailable result
    memoRejected,  \* history: fixMemo holds a candidate that the validator rejected
    content,       \* the text T: argument content / editor.getValue() at the call
    reps,          \* the list of {start, end, text} handed to the appliers
    applyPc,       \* "input", "content" (applyReplacementsToContent returned), "done"
    contentResult, \* the text applyReplacementsToContent returned
    hasOffsetToPos, \* the editor has the method offsetToPos
    editorText,    \* the text the editor holds after applyReplacementsReverse
    text,          \* the argument of extractMermaidBlocks
    lastIndex,     \* re.lastIndex
    blocks,        \* const blocks
    idx,           \* let idx
    extractPc,     \* "loop": in the while loop, "done": the function returned
    normIn,        \* the argument of preNormalizeMermaid (gemini client)
    normOnce,      \* preNormalizeMermaid(normIn)
    normTwice,     \* preNormalizeMermaid(normOnce)
    normPc,        \* "input", "once", "twice"
    preIn,         \* the argument of preNormalizeMermaid (utils)
    preOnce,       \* preNormalizeMermaid(preIn)
    preTwice,      \* preNormalizeMermaid(preOnce)
    prePc,         \* "input", "once", "twice"
    mermaidLoaded,   \* window.mermaid is there
    parseError,      \* m.parseError: 0 undefined, -1 a handler of the host, v > 0 the interceptor of call v
    priorHandler,    \* m.parseError before any validation began
    priorCalls,      \* how often the handler of the host was invoked
    vpc,             \* per call: "idle", "awaiting" (at await r), "done"
    prevParseError,  \* per call: const prevParseError
    heldAtStart,     \* per call: m.parseError when the call started
    trappedError,    \* per call: let trappedError: 0 null, w the error of the parser of call w
    reported,        \* per call: the asynchronous parser has gone through the hook
    valExit,         \* per call: the exit path taken
    valOk,           \* per call: the field ok of the result
    trappedEmpty,    \* per call: trappedError is the empty string
    valError,        \* per call: the field error of the result: "absent", "empty", "text"
    timeoutMs,     \* the argument timeoutMs of the calls (this.settings): 0 or 1
    fixMemo,       \* const fixMemo: the Map, a function from the keys it has
    firstReturned, \* history: per tuple, the text a call returned first (<<>> none yet)
    cpc,           \* per call: "idle", "waiting" (at await withTimeout), "done", "taken"
    cTuple,        \* per call: (apiVersion, model, diagram, pre, errorMsg)
    cPreChanged,   \* per call: pre !== original
    requests,      \* per call: fetch requests issued
    timer,         \* per call: the timer of withTimeout: "none", "armed", "cleared", "fired"
    aborted,       \* per call: controller.abort() was called
    fetchSt,       \* per call: the request: "none", "inflight", "headers", "settled"
    responded,     \* per call: fetch has resolved with a response
    delivered,     \* per call: the outcomes that reached the caller, in order
    returned,      \* per call: the text the call returned (<<>> none)
    knownAtStart,  \* history: per call, firstReturned of its tuple when it started
    hadEntry,      \* history: per call, fixMemo had its key when it started
    initOriginal,  \* the argument original of preserveInitIfNeeded
    initFixed,     \* the argument fixed
    initEnabled,   \* the argument enabled
    initOnce,      \* preserveInitIfNeeded(original, fixed, enabled)
    initTwice,     \* preserveInitIfNeeded(original, initOnce, enabled)
    initPc,        \* "input", "once", "twice"
    resStatus,     \* res.status of the response that fetch resolved with
    resBody,       \* the body of the response (const text and what JSON.parse makes of it)
    clsResult,     \* what callGeminiSingle did: the kind of the error thrown or "ok", and the text
    clsPc,         \* "input", "done"
    gOriginal,     \* the argument original of geminiFixSingle
    gErrorMsg,     \* the argument errorMsg
    gMemoFrom,     \* history: the tuple of the call that stored the entry fixMemo starts with
    gPc,           \* "input", "asked" (at await withTimeout), "done"
    gPre,          \* const pre
    gKey,          \* const key
    gPrompt,       \* const prompt: the conditional rules in it, the error and the code it shows
    gHit,          \* the call returned at `if (memo) return memo`
    gRaw,          \* const raw
    gOut           \* the outcome of the call: its kind and the text returned

cmdVars == <<mode, pc, applyMode, activeFile, currentFile, nFiles, file, errCount>>
loopVars == <<blk, attempt, success, cancelled, autoApply, replacements, inFlight, memoNonEmpty>>
modalVars == <<openModals, closingModals, oldModals, saving, lateClicks>>
histVars == <<written, modified, calls, lastResp, hardAbort, phase, exhausted>>
envVars == <<oracleUp, docEdited, unavailable, memoRejected>>
applyVars == <<content, reps, applyPc, contentResult, hasOffsetToPos, editorText>>
extractVars == <<text, lastIndex, blocks, idx, extractPc>>
normVars == <<normIn, normOnce, normTwice, normPc>>
preVars == <<preIn, preOnce, preTwice, prePc>>
hookVars == <<mermaidLoaded, parseError, priorHandler, priorCalls, vpc, prevParseError,
              heldAtStart, trappedError, reported, valExit, valOk, trappedEmpty, valError>>
clientVars == <<timeoutMs, fixMemo, firstReturned, cpc, cTuple, cPreChanged, requests,
                timer, aborted, fetchSt, responded, delivered, returned,
                knownAtStart, hadEntry>>
initVars == <<initOriginal, initFixed, initEnabled, initOnce, initTwice, initPc>>
clsVars == <<resStatus, resBody, clsResult, clsPc>>
fixSingleVars == <<gOriginal, gErrorMsg, gMemoFrom, gPc, gPre, gKey, gPrompt, gHit, gRaw, gOut>>

vars == <<cmdVars, loopVars, modalVars, histVars, envVars, applyVars, extractVars, normVars, preVars, hookVars, clientVars, initVars, clsVars, fixSingleVars>>

(***************************************************************************)
(* The correction client's outcomes, as the commands see them.             *)
(***************************************************************************)
\* "ok": geminiFixSingle returns a non-empty text; the others are the errors
\* thrown by callGeminiSingle, by withTimeout ("timeout") and by
\* geminiFixSingle itself ("empty": the empty-output error); "other" is a
\* non-2xx status with no case of its own
RespKinds == {"ok", "auth", "notfound", "parse", "rate", "server", "other",
              "nocand", "incomplete", "timeout", "empty"}

\* the failures that the specification calls hard, and those it calls soft
HardKinds == {"auth", "notfound", "parse"}
SoftKinds == {"rate", "server", "timeout", "nocand", "incomplete"}

\* the error messages that embed text chosen by the service (response body,
\* blockReason, safety ratings, finishReason)
EmbedsServiceText(kind) ==
    kind \in {"auth", "notfound", "parse", "rate", "server", "other", "nocand", "incomplete"}

\* a plausible slip: only the authentication error is recognised
isHardMessageAuthOnly(kind, echo) == kind = "auth"

\* /認証エラー|モデルが見つかりません|応答のJSON解析/i.test(String(e?.message ?? e));
\* echo: the text of the service embedded in the message holds one of the phrases
isHardMessage(kind, echo) ==
    \/ kind \in HardKinds
    \/ echo /\ EmbedsServiceText(kind)

maxAttempts == IF mode = "fix" THEN maxAttemptsFix ELSE maxAttemptsAll

\* a plausible slip: one iteration too many
LoopContinuesOffByOne(a, m) == a <= m + 1

\* for (let attempt = 1; attempt <= maxAttempts; attempt++)
LoopContinues(a, m) == a <= m

\* a plausible slip: the modal is opened and the loop goes on without awaiting
AwaitsPreviewNot == FALSE

\* await new Promise<void>((resolve) => { ... modal.open(); })
AwaitsPreview == TRUE

\* the async function is suspended (await) or has returned: only here can a
\* click, a timer, the end of saveData or a change of the active file happen
Suspended == pc \in {"scanned", "net", "validate", "preview", "fileStart", "modify", "done"}

\* the promise of the preview of block b of file f is pending
PromisePending(f, b) == pc = "preview" /\ file = f /\ blk = b

(***************************************************************************)
(* Init: the plugin is loaded and a fix command is about to run.           *)
(***************************************************************************)
OrchInit ==
    /\ mode \in {"fix", "fixAll"}
    /\ pc = "start"
    /\ applyMode \in {"confirm", "auto"}
    /\ activeFile = "A"
    /\ currentFile = "A"
    /\ nFiles = 1
    /\ file = 1
    /\ errCount = 0
    /\ blk = 1
    /\ attempt = 1
    /\ success = FALSE
    /\ cancelled = FALSE
    /\ autoApply = FALSE
    /\ replacements = <<>>
    /\ inFlight = 0
    /\ memoNonEmpty \in BOOLEAN
    /\ openModals = {}
    /\ closingModals = {}
    /\ oldModals = FALSE
    /\ saving = <<>>
    /\ lateClicks = 0
    /\ written = <<>>
    /\ modified = {}
    /\ calls = 0
    /\ lastResp = "none"
    /\ hardAbort = FALSE
    /\ phase = [b \in 1..MaxBlocks |-> "todo"]
    /\ exhausted = {}
    /\ oracleUp \in BOOLEAN
    /\ docEdited = FALSE
    /\ unavailable = FALSE
    /\ memoRejected = FALSE

\* no command runs (the specifications of the pure functions)
OrchIdle ==
    /\ mode = "none"
    /\ pc = "idle"
    /\ applyMode = "confirm"
    /\ activeFile = "A"
    /\ currentFile = "A"
    /\ nFiles = 1
    /\ file = 1
    /\ errCount = 0
    /\ blk = 1
    /\ attempt = 1
    /\ success = FALSE
    /\ cancelled = FALSE
    /\ autoApply = FALSE
    /\ replacements = <<>>
    /\ inFlight = 0
    /\ memoNonEmpty = FALSE
    /\ openModals = {}
    /\ closingModals = {}
    /\ oldModals = FALSE
    /\ saving = <<>>
    /\ lateClicks = 0
    /\ written = <<>>
    /\ modified = {}
    /\ calls = 0
    /\ lastResp = "none"
    /\ hardAbort = FALSE
    /\ phase = [b \in 1..MaxBlocks |-> "todo"]
    /\ exhausted = {}
    /\ oracleUp = FALSE
    /\ docEdited = FALSE
    /\ unavailable = FALSE
    /\ memoRejected = FALSE

(***************************************************************************)
(* runFixWithGemini                                                        *)
(***************************************************************************)
\* lines 280-305: the early returns (hasMermaid() among them), the extraction,
\* the validation of every block (n = errorBlocks.length) and the locals
StartFix ==
    /\ mode = "fix" /\ pc = "start"
    /\ \E n \in 0..MaxBlocks :
         /\ ~oracleUp => n = 0
         /\ errCount' = n
         /\ pc' = IF n = 0 THEN "done" ELSE "scanned"
    /\ replacements' = <<>>
    /\ autoApply' = (applyMode = "auto")
    /\ cancelled' = FALSE
    /\ UNCHANGED <<mode, applyMode, activeFile, currentFile, nFiles, file, blk, attempt,
                   success, inFlight, memoNonEmpty, modalVars, histVars, envVars, applyVars,
                   extractVars, normVars, preVars, hookVars, clientVars, initVars, clsVars,
                   fixSingleVars>>

\* line 307: const currentFile = this.app.workspace.getActiveFile()
CaptureFile ==
    /\ mode = "fix" /\ pc = "scanned"
    /\ currentFile' = activeFile
    /\ blk' = 1
    /\ pc' = "blockStart"
    /\ UNCHANGED <<mode, applyMode, activeFile, nFiles, file, errCount, attempt, success,
                   cancelled, autoApply, replacements, inFlight, memoNonEmpty, modalVars,
                   histVars, envVars, applyVars, extractVars, normVars, preVars, hookVars,
                   clientVars, initVars, clsVars, fixSingleVars>>

\* the user opens another note, or comes back, while the command is suspended
UserSwitchesFile ==
    /\ mode = "fix" /\ Suspended /\ pc # "done"
    /\ activeFile' = IF activeFile = "A" THEN "B" ELSE "A"
    /\ UNCHANGED <<mode, pc, applyMode, currentFile, nFiles, file, errCount, loopVars,
                   modalVars, histVars, envVars, applyVars, extractVars, normVars, preVars,
                   hookVars, clientVars, initVars, clsVars, fixSingleVars>>

\* window.mermaid goes away, or loses its entry points, while a command is
\* suspended
OracleLost ==
    /\ Suspended /\ pc # "done"
    /\ oracleUp
    /\ oracleUp' = FALSE
    /\ UNCHANGED <<cmdVars, loopVars, modalVars, histVars, docEdited, unavailable,
                   memoRejected, applyVars, extractVars, normVars, preVars, hookVars,
                   clientVars, initVars, clsVars, fixSingleVars>>

\* the user types in the document that the command has read, in or before the
\* span of a block, while the command is suspended
UserEditsDoc ==
    /\ Suspended /\ pc # "done"
    /\ ~docEdited
    /\ docEdited' = TRUE
    /\ UNCHANGED <<cmdVars, loopVars, modalVars, histVars, oracleUp, unavailable,
                   memoRejected, applyVars, extractVars, normVars, preVars, hookVars,
                   clientVars, initVars, clsVars, fixSingleVars>>

\* lines 317-321: the head of the block loop with stopIfFileChanged, and
\* the locals of the block
BlockStartFix ==
    /\ mode = "fix" /\ pc = "blockStart"
    /\ IF blk > errCount
       THEN /\ pc' = "apply"
            /\ UNCHANGED <<cancelled, success, attempt, calls, phase>>
       ELSE IF cancelled \/ currentFile # activeFile
            THEN /\ cancelled' = TRUE
                 /\ pc' = "apply"
                 /\ UNCHANGED <<success, attempt, calls, phase>>
            ELSE /\ success' = FALSE
                 /\ attempt' = 1
                 /\ calls' = 0
                 /\ phase' = [phase EXCEPT ![blk] = "fixing"]
                 /\ pc' = IF LoopContinues(1, maxAttempts) THEN "call" ELSE "afterLoop"
                 /\ UNCHANGED cancelled
    /\ UNCHANGED <<mode, applyMode, activeFile, currentFile, nFiles, file, errCount, blk,
                   autoApply, replacements, inFlight, memoNonEmpty, modalVars, written,
                   modified, lastResp, hardAbort, exhausted, envVars, applyVars,
                   extractVars, normVars, preVars, hookVars, clientVars, initVars, clsVars,
                   fixSingleVars>>

(***************************************************************************)
(* The attempt loop: the same text in both commands (lines 323-349 and     *)
(* 496-517).                                                               *)
(***************************************************************************)
\* geminiFixWithBackoff -> geminiFixSingle up to its await: a memo hit
\* returns the cached text at once, otherwise one request is sent
Call ==
    /\ pc = "call"
    /\ calls' = calls + 1
    /\ \/ /\ memoNonEmpty
          /\ lastResp' = "ok"
          /\ pc' = "validate"
          /\ UNCHANGED inFlight
       \/ /\ inFlight' = inFlight + 1
          /\ pc' = "net"
          /\ UNCHANGED lastResp
    /\ UNCHANGED <<mode, applyMode, activeFile, currentFile, nFiles, file, errCount, blk,
                   attempt, success, cancelled, autoApply, replacements, memoNonEmpty,
                   modalVars, written, modified, hardAbort, phase, exhausted, envVars,
                   applyVars, extractVars, normVars, preVars, hookVars, clientVars,
                   initVars, clsVars, fixSingleVars>>

\* the request ends: callGeminiSingle returns or throws, or the timer of
\* withTimeout fires; then the rest of geminiFixSingle and the try/catch of
\* the attempt loop (every error ends the loop: break)
Respond ==
    /\ pc = "net"
    /\ inFlight' = inFlight - 1
    /\ \E kind \in RespKinds, echo \in BOOLEAN :
         /\ lastResp' = kind
         /\ IF kind = "ok"
            THEN /\ memoNonEmpty' = TRUE
                 /\ pc' = "validate"
                 /\ UNCHANGED <<cancelled, success, hardAbort, phase>>
            ELSE /\ success' = FALSE
                 /\ cancelled' = (cancelled \/ isHardMessage(kind, echo))
                 /\ hardAbort' = (hardAbort \/ kind \in HardKinds)
                 \* runFixWithGemini shows the error of the block in a Notice
                 /\ phase' = IF mode = "fix" THEN [phase EXCEPT ![blk] = "failed"] ELSE phase
                 /\ pc' = "afterLoop"
                 /\ UNCHANGED memoNonEmpty
    /\ UNCHANGED <<mode, applyMode, activeFile, currentFile, nFiles, file, errCount, blk,
                   attempt, autoApply, replacements, modalVars, written, modified, calls,
                   exhausted, envVars, applyVars, extractVars, normVars, preVars, hookVars,
                   clientVars, initVars, clsVars, fixSingleVars>>

\* preserveInitIfNeeded, then validateMermaidAsync of the candidate, which
\* geminiFixSingle has stored in fixMemo: accepted, or rejected and the next
\* iteration; the oracle-unavailable result has ok false as a rejection has
Validate ==
    /\ pc = "validate"
    /\ \/ /\ oracleUp
          /\ success' = TRUE
          /\ phase' = [phase EXCEPT ![blk] = "accepted"]
          /\ pc' = "afterLoop"
          /\ UNCHANGED <<attempt, unavailable, memoRejected, exhausted>>
       \/ /\ attempt' = attempt + 1
          /\ pc' = IF LoopContinues(attempt + 1, maxAttempts) THEN "call" ELSE "afterLoop"
          /\ exhausted' = IF LoopContinues(attempt + 1, maxAttempts)
                          THEN exhausted ELSE exhausted \cup {blk}
          /\ unavailable' = (unavailable \/ ~oracleUp)
          /\ memoRejected' = (memoRejected \/ oracleUp)
          /\ UNCHANGED <<success, phase>>
    /\ UNCHANGED <<mode, applyMode, activeFile, currentFile, nFiles, file, errCount, blk,
                   cancelled, autoApply, replacements, inFlight, memoNonEmpty, modalVars,
                   written, modified, calls, lastResp, hardAbort, oracleUp, docEdited,
                   applyVars, extractVars, normVars, preVars, hookVars, clientVars,
                   initVars, clsVars, fixSingleVars>>

\* a plausible slip: the failure of a block ends the block loop
ReportFailureAndStop ==
    /\ phase' = [phase EXCEPT ![blk] = "failed"]
    /\ blk' = blk
    /\ pc' = IF mode = "fix" THEN "apply" ELSE "modify"
    /\ UNCHANGED <<replacements, openModals>>

\* lines 378-380 and 544-546: the Notice of the failure; the block loop goes on
ReportFailure ==
    /\ phase' = [phase EXCEPT ![blk] = "failed"]
    /\ blk' = blk + 1
    /\ pc' = "blockStart"
    /\ UNCHANGED <<replacements, openModals>>

\* lines 353-380 and 519-546: queue the fix, open the preview, or report
AfterLoopBody ==
    IF success
    THEN IF autoApply
         THEN /\ replacements' = Append(replacements, blk)
              /\ phase' = [phase EXCEPT ![blk] = "queued"]
              /\ blk' = blk + 1
              /\ pc' = "blockStart"
              /\ UNCHANGED openModals
         ELSE /\ openModals' = openModals \cup {blk}
              /\ phase' = [phase EXCEPT ![blk] = "preview"]
              /\ IF AwaitsPreview
                 THEN pc' = "preview" /\ UNCHANGED blk
                 ELSE pc' = "blockStart" /\ blk' = blk + 1
              /\ UNCHANGED replacements
    ELSE ReportFailure

\* line 351: if (cancelled) break; then lines 353-380
AfterLoopFix ==
    /\ mode = "fix" /\ pc = "afterLoop"
    /\ IF cancelled
       THEN /\ pc' = "apply"
            /\ UNCHANGED <<blk, replacements, openModals, phase>>
       ELSE AfterLoopBody
    \* the loop is over: its counter is out of scope, the histories start anew
    /\ attempt' = 1
    /\ calls' = 0
    /\ lastResp' = "none"
    /\ UNCHANGED <<mode, applyMode, activeFile, currentFile, nFiles, file, errCount,
                   success, cancelled, autoApply, inFlight, memoNonEmpty, closingModals,
                   oldModals, saving, lateClicks, written, modified, hardAbort, exhausted,
                   envVars, applyVars, extractVars, normVars, preVars, hookVars, clientVars,
                   initVars, clsVars, fixSingleVars>>

\* reps.sort((a, b) => b.start - a.start), on block indexes: the blocks of one
\* extraction ascend in startOffset, and Array.prototype.sort is stable
RECURSIVE InsertDesc(_, _)
InsertDesc(s, x) ==
    IF s = <<>> THEN <<x>>
    ELSE IF Head(s) >= x THEN <<Head(s)>> \o InsertDesc(Tail(s), x)
    ELSE <<x>> \o s

RECURSIVE SortDesc(_)
SortDesc(s) ==
    IF s = <<>> THEN <<>>
    ELSE InsertDesc(SortDesc(SubSeq(s, 1, Len(s) - 1)), s[Len(s)])

\* lines 383-388: applyReplacementsReverse(editor, replacements), which sorts
\* the list in place
ApplyFix ==
    /\ mode = "fix" /\ pc = "apply"
    /\ IF ~cancelled /\ Len(replacements) > 0
       THEN /\ written' = SortDesc(replacements)
            /\ replacements' = SortDesc(replacements)
       ELSE UNCHANGED <<written, replacements>>
    /\ pc' = "done"
    /\ UNCHANGED <<mode, applyMode, activeFile, currentFile, nFiles, file, errCount, blk,
                   attempt, success, cancelled, autoApply, inFlight, memoNonEmpty,
                   modalVars, modified, calls, lastResp, hardAbort, phase, exhausted,
                   envVars, applyVars, extractVars, normVars, preVars, hookVars, clientVars,
                   initVars, clsVars, fixSingleVars>>

(***************************************************************************)
(* runFixAllFilesWithGemini                                                *)
(***************************************************************************)
\* lines 445-463: the early returns (hasMermaid() among them), the
\* confirmation dialog, the locals
StartAll ==
    /\ mode = "fixAll" /\ pc = "start"
    /\ \E n \in 0..MaxFiles :
         /\ ~oracleUp => n = 0
         /\ nFiles' = IF n = 0 THEN nFiles ELSE n
         /\ pc' = IF n = 0 THEN "done" ELSE "fileStart"
    /\ file' = 1
    /\ cancelled' = FALSE
    /\ UNCHANGED <<mode, applyMode, activeFile, currentFile, errCount, blk, attempt,
                   success, autoApply, replacements, inFlight, memoNonEmpty, modalVars,
                   histVars, envVars, applyVars, extractVars, normVars, preVars, hookVars,
                   clientVars, initVars, clsVars, fixSingleVars>>

\* lines 465-488: the head of the file loop, vault.read, the extraction and
\* the validation of every block (n = errorBlocks.length; a read that fails
\* is caught and the loop goes to the next file, as it does for n = 0)
FileStart ==
    /\ mode = "fixAll" /\ pc = "fileStart"
    /\ IF file > nFiles \/ cancelled
       THEN /\ pc' = "done"
            /\ UNCHANGED <<file, errCount, blk, autoApply, replacements, phase, docEdited,
                           unavailable, exhausted>>
       ELSE \E n \in 0..MaxBlocks :
            IF n = 0
            THEN /\ file' = file + 1
                 /\ pc' = "fileStart"
                 /\ UNCHANGED <<errCount, blk, autoApply, replacements, phase, docEdited,
                                unavailable, exhausted>>
            ELSE /\ errCount' = n
                 /\ blk' = 1
                 /\ replacements' = <<>>
                 /\ autoApply' = (applyMode = "auto")
                 /\ phase' = [b \in 1..MaxBlocks |-> "todo"]
                 /\ exhausted' = {}
                 /\ pc' = "blockStart"
                 \* the text of the file is read anew; without the oracle
                 \* every block of the file is an error block
                 /\ docEdited' = FALSE
                 /\ unavailable' = (unavailable \/ ~oracleUp)
                 /\ UNCHANGED file
    /\ UNCHANGED <<mode, applyMode, activeFile, currentFile, nFiles, attempt, success,
                   cancelled, inFlight, memoNonEmpty, modalVars, written, modified, calls,
                   lastResp, hardAbort, oracleUp, memoRejected, applyVars, extractVars,
                   normVars, preVars, hookVars, clientVars, initVars, clsVars,
                   fixSingleVars>>

\* lines 490-494: the head of the block loop and the locals of the block
BlockStartAll ==
    /\ mode = "fixAll" /\ pc = "blockStart"
    /\ IF blk > errCount \/ cancelled
       THEN /\ pc' = "modify"
            /\ UNCHANGED <<success, attempt, calls, phase>>
       ELSE /\ success' = FALSE
            /\ attempt' = 1
            /\ calls' = 0
            /\ phase' = [phase EXCEPT ![blk] = "fixing"]
            /\ pc' = IF LoopContinues(1, maxAttempts) THEN "call" ELSE "afterLoop"
    /\ UNCHANGED <<mode, applyMode, activeFile, currentFile, nFiles, file, errCount, blk,
                   cancelled, autoApply, replacements, inFlight, memoNonEmpty, modalVars,
                   written, modified, lastResp, hardAbort, exhausted, envVars, applyVars,
                   extractVars, normVars, preVars, hookVars, clientVars, initVars, clsVars,
                   fixSingleVars>>

\* lines 519-546: cancelled is not tested here
AfterLoopAll ==
    /\ mode = "fixAll" /\ pc = "afterLoop"
    /\ AfterLoopBody
    \* the loop is over: its counter is out of scope, the histories start anew
    /\ attempt' = 1
    /\ calls' = 0
    /\ lastResp' = "none"
    /\ UNCHANGED <<mode, applyMode, activeFile, currentFile, nFiles, file, errCount,
                   success, cancelled, autoApply, inFlight, memoNonEmpty, closingModals,
                   oldModals, saving, lateClicks, written, modified, hardAbort, exhausted,
                   envVars, applyVars, extractVars, normVars, preVars, hookVars, clientVars,
                   initVars, clsVars, fixSingleVars>>

\* lines 549-558: applyReplacementsToContent and vault.modify (a vault.modify
\* that rejects is caught and the file stays as it was); the iteration of the
\* file ends, its locals are gone and its modals are those of an earlier file
ModifyFile ==
    /\ mode = "fixAll" /\ pc = "modify"
    /\ IF Len(replacements) > 0
       THEN \/ modified' = modified \cup {file}
            \/ UNCHANGED modified
       ELSE UNCHANGED modified
    /\ oldModals' = (oldModals \/ openModals # {} \/ closingModals # {})
    /\ openModals' = {}
    /\ closingModals' = {}
    \* the onAutoApply continuations of this file push to a list and resolve
    \* a promise that nothing reads any more
    /\ saving' = <<>>
    /\ file' = file + 1
    /\ pc' = "fileStart"
    /\ UNCHANGED <<mode, applyMode, activeFile, currentFile, nFiles, errCount, loopVars,
                   lateClicks, written, calls, lastResp, hardAbort, phase, exhausted,
                   envVars, applyVars, extractVars, normVars, preVars, hookVars, clientVars,
                   initVars, clsVars, fixSingleVars>>

(***************************************************************************)
(* FixPreviewModal: the buttons, and the callbacks the commands give it.   *)
(***************************************************************************)
\* a button of the modal of block b can be clicked: the modal is shown, or it
\* was asked to close and the 200 ms timer of close() has not removed it yet
Clickable(b) ==
    /\ Suspended
    /\ \/ b \in openModals
       \/ b \in closingModals /\ lateClicks < MaxLateClicks

\* close(): the visible classes go at once, the elements 200 ms later
CloseModal(b) ==
    /\ openModals' = openModals \ {b}
    /\ closingModals' = closingModals \cup {b}
    /\ lateClicks' = IF b \in openModals THEN lateClicks ELSE lateClicks + 1

\* resolve() of the promise of the preview of block b of file f; resolving a
\* promise that is already resolved does nothing
Resolve(f, b) ==
    IF PromisePending(f, b)
    THEN /\ blk' = blk + 1
         /\ pc' = "blockStart"
         /\ phase' = [phase EXCEPT ![b] = "queued"]
    ELSE UNCHANGED <<blk, pc, phase>>

\* the button "置換": close(), then onReplace
ClickReplace ==
    /\ \E b \in 1..MaxBlocks :
         /\ Clickable(b)
         /\ CloseModal(b)
         /\ replacements' = Append(replacements, b)
         /\ Resolve(file, b)
    /\ UNCHANGED <<mode, applyMode, activeFile, currentFile, nFiles, file, errCount,
                   attempt, success, cancelled, autoApply, inFlight, memoNonEmpty,
                   oldModals, saving, written, modified, calls, lastResp, hardAbort,
                   exhausted, envVars, applyVars, extractVars, normVars, preVars, hookVars,
                   clientVars, initVars, clsVars, fixSingleVars>>

\* the button "以後自動適用": close(), then onAutoApply up to await saveData
ClickAutoApply ==
    /\ \E b \in 1..MaxBlocks :
         /\ Clickable(b)
         /\ CloseModal(b)
         /\ saving' = Append(saving, <<file, b>>)
    /\ autoApply' = TRUE
    /\ applyMode' = "auto"
    /\ UNCHANGED <<mode, pc, activeFile, currentFile, nFiles, file, errCount, blk, attempt,
                   success, cancelled, replacements, inFlight, memoNonEmpty, oldModals,
                   histVars, envVars, applyVars, extractVars, normVars, preVars, hookVars,
                   clientVars, initVars, clsVars, fixSingleVars>>

\* saveData is done: the rest of onAutoApply
SaveDone ==
    /\ Suspended
    /\ saving # <<>>
    /\ replacements' = Append(replacements, Head(saving)[2])
    /\ Resolve(Head(saving)[1], Head(saving)[2])
    /\ saving' = Tail(saving)
    /\ UNCHANGED <<mode, applyMode, activeFile, currentFile, nFiles, file, errCount,
                   attempt, success, cancelled, autoApply, inFlight, memoNonEmpty,
                   openModals, closingModals, oldModals, lateClicks, written, modified,
                   calls, lastResp, hardAbort, exhausted, envVars, applyVars, extractVars,
                   normVars, preVars, hookVars, clientVars, initVars, clsVars,
                   fixSingleVars>>

\* the button "✕": close() only
ClickClose ==
    /\ \E b \in 1..MaxBlocks :
         /\ Clickable(b)
         /\ CloseModal(b)
    /\ UNCHANGED <<cmdVars, loopVars, oldModals, saving, histVars, envVars, applyVars,
                   extractVars, normVars, preVars, hookVars, clientVars, initVars, clsVars,
                   fixSingleVars>>

\* the 200 ms timer of close() fires: modal.remove()
ModalRemoved ==
    /\ Suspended
    /\ \E b \in closingModals : closingModals' = closingModals \ {b}
    /\ UNCHANGED <<cmdVars, loopVars, openModals, oldModals, saving, lateClicks, histVars,
                   envVars, applyVars, extractVars, normVars, preVars, hookVars, clientVars,
                   initVars, clsVars, fixSingleVars>>

\* "以後自動適用" on a closing modal of an earlier file: its callback writes
\* the setting; its autoApply and replacements are locals of a past iteration
ClickAutoApplyOld ==
    /\ Suspended
    /\ oldModals /\ lateClicks < MaxLateClicks
    /\ lateClicks' = lateClicks + 1
    /\ applyMode' = "auto"
    /\ UNCHANGED <<mode, pc, activeFile, currentFile, nFiles, file, errCount, loopVars,
                   openModals, closingModals, oldModals, saving, histVars, envVars,
                   applyVars, extractVars, normVars, preVars, hookVars, clientVars,
                   initVars, clsVars, fixSingleVars>>

\* the timers of the modals of earlier files fire
OldModalsRemoved ==
    /\ Suspended
    /\ oldModals
    /\ oldModals' = FALSE
    /\ UNCHANGED <<cmdVars, loopVars, openModals, closingModals, saving, lateClicks,
                   histVars, envVars, applyVars, extractVars, normVars, preVars, hookVars,
                   clientVars, initVars, clsVars, fixSingleVars>>

OrchNext ==
    \/ StartFix
    \/ CaptureFile
    \/ UserSwitchesFile
    \/ BlockStartFix
    \/ Call
    \/ Respond
    \/ Validate
    \/ AfterLoopFix
    \/ ApplyFix
    \/ StartAll
    \/ FileStart
    \/ BlockStartAll
    \/ AfterLoopAll
    \/ ModifyFile
    \/ ClickReplace
    \/ ClickAutoApply
    \/ SaveDone
    \/ ClickClose
    \/ ModalRemoved
    \/ ClickAutoApplyOld
    \/ OldModalsRemoved

\* the commands, and what happens around them while they are suspended
OrchEnvNext ==
    \/ OrchNext
    \/ OracleLost
    \/ UserEditsDoc


(***************************************************************************)
(* Texts are sequences of characters; the two appliers.                    *)
(***************************************************************************)
Min(a, b) == IF a < b THEN a ELSE b

Max(a, b) == IF a > b THEN a ELSE b

\* Math.max(min, Math.min(max, n))
clamp(n, min, max) == Max(min, Min(max, n))

\* String.prototype.slice(from, to): a negative index counts from the end,
\* both are cut to the length, and an empty text results when from >= to
Slice(s, from, to) ==
    LET rel(k) == IF k < 0 THEN Max(Len(s) + k, 0) ELSE Min(k, Len(s))
    IN SubSeq(s, rel(from) + 1, rel(to))

\* String.prototype.slice(from)
SliceFrom(s, from) == Slice(s, from, Len(s))

\* insertion of one replacement into a list sorted by descending start, after
\* the elements of the same start (Array.prototype.sort is stable)
RECURSIVE InsertByStartDesc(_, _)
InsertByStartDesc(s, r) ==
    IF s = <<>> THEN <<r>>
    ELSE IF Head(s).start >= r.start THEN <<Head(s)>> \o InsertByStartDesc(Tail(s), r)
    ELSE <<r>> \o s

\* .sort((a, b) => b.start - a.start)
RECURSIVE SortByStartDesc(_)
SortByStartDesc(s) ==
    IF s = <<>> THEN <<>>
    ELSE InsertByStartDesc(SortByStartDesc(SubSeq(s, 1, Len(s) - 1)), s[Len(s)])

\* result = result.slice(0, r.start) + r.text + result.slice(r.end), for each
\* replacement of the list in its order
RECURSIVE SpliceEach(_, _)
SpliceEach(result, list) ==
    IF list = <<>> THEN result
    ELSE SpliceEach(Slice(result, 0, Head(list).start) \o Head(list).text
                      \o SliceFrom(result, Head(list).end),
                    Tail(list))

\* a plausible slip: the list is applied in the order it came in
applyReplacementsUnsorted(str, list) == SpliceEach(str, list)

\* applyReplacementsToContent(content, replacements) of the plugin
applyReplacementsToContent(str, list) ==
    SpliceEach(str, SortByStartDesc(list))

\* text.split('\n'): the pieces between the newlines (one more than newlines)
RECURSIVE SplitLines(_)
SplitLines(s) ==
    IF \A i \in 1..Len(s) : s[i] # "\n" THEN <<s>>
    ELSE LET i == CHOOSE k \in 1..Len(s) :
                    s[k] = "\n" /\ \A j \in 1..(k - 1) : s[j] # "\n"
         IN <<SubSeq(s, 1, i - 1)>> \o SplitLines(SubSeq(s, i + 1, Len(s)))

\* offsetToPosFallback(text, offset): <<line, ch>>
offsetToPosFallback(str, offset) ==
    LET lines == SplitLines(Slice(str, 0, offset))
    IN <<Len(lines) - 1, Len(lines[Len(lines)])>>

\* Editor.offsetToPos(offset) on the text the editor holds now: the offset is
\* cut to the text, the line is the number of newlines before it
EditorOffsetToPos(str, offset) ==
    LET o == clamp(offset, 0, Len(str))
        nl == {i \in 1..o : str[i] = "\n"}
        lineStart == IF nl = {} THEN 0 ELSE CHOOSE i \in nl : \A j \in nl : j <= i
    IN <<Cardinality(nl), o - lineStart>>

\* Editor.posToOffset(pos) on the text the editor holds now: a line after the
\* last one is the end of the text, a ch after the end of its line is that end
EditorPosToOffset(str, pos) ==
    LET lines == SplitLines(str)
        RECURSIVE Before(_)
        Before(k) == IF k = 0 THEN 0 ELSE Before(k - 1) + Len(lines[k]) + 1
    IN IF pos[1] + 1 > Len(lines) THEN Len(str)
       ELSE Before(pos[1]) + Min(pos[2], Len(lines[pos[1] + 1]))

\* Editor.replaceRange(text, from, to)
EditorReplaceRange(ed, str, from, to) ==
    LET f == EditorPosToOffset(ed, from)
        t == EditorPosToOffset(ed, to)
    IN SubSeq(ed, 1, f) \o str \o SubSeq(ed, t + 1, Len(ed))

\* the loop of applyReplacementsReverse over the list in its order: doc is the
\* text read before the loop, ed the text the editor holds now
RECURSIVE ReplaceEach(_, _, _, _)
ReplaceEach(doc, ed, list, viaEditor) ==
    IF list = <<>> THEN ed
    ELSE LET r == Head(list)
             s == clamp(r.start, 0, Len(doc))
             e == clamp(r.end, s, Len(doc))
             from == IF viaEditor THEN EditorOffsetToPos(ed, s) ELSE offsetToPosFallback(doc, s)
             to == IF viaEditor THEN EditorOffsetToPos(ed, e) ELSE offsetToPosFallback(doc, e)
         IN ReplaceEach(doc, EditorReplaceRange(ed, r.text, from, to), Tail(list), viaEditor)

\* a plausible slip: the list is not sorted before the loop
applyReplacementsReverseUnsorted(doc, list, viaEditor) ==
    ReplaceEach(doc, doc, list, viaEditor)

\* applyReplacementsReverse(editor, reps): the text of the editor afterwards
applyReplacementsReverse(doc, list, viaEditor) ==
    ReplaceEach(doc, doc, SortByStartDesc(list), viaEditor)

(***************************************************************************)
(* The appliers run on a text and a list.                                  *)
(***************************************************************************)
\* the characters of the texts: a letter that tells its place, or a newline
Letters == <<"a", "b", "c", "d", "e", "f">>

Texts(n) == {t \in [1..n -> {"a", "b", "c", "d", "e", "f", "\n"}] :
                \A i \in 1..n : t[i] \in {Letters[i], "\n"}}

\* replacement texts: one line, or a text with a newline in it
RepTexts == {<<"X">>, <<"Y", "\n">>}

\* the replacements whose span lies in a text of n characters
RepsIn(n) == {r \in [start : 0..n, end : 0..n, text : RepTexts] : r.start <= r.end}

\* every span lies in the text
InBounds(str, list) ==
    \A i \in 1..Len(list) :
        0 <= list[i].start /\ list[i].start <= list[i].end /\ list[i].end <= Len(str)

\* no two spans overlap: one ends where or before the other starts
NonOverlapping(list) ==
    \A i, j \in 1..Len(list) :
        i # j => (list[i].end <= list[j].start \/ list[j].end <= list[i].start)

\* no two spans start at the same offset
DistinctStarts(list) ==
    \A i, j \in 1..Len(list) : i # j => list[i].start # list[j].start

\* no command and no applier runs
ApplyIdle ==
    /\ content = <<>>
    /\ reps = <<>>
    /\ applyPc = "idle"
    /\ contentResult = <<>>
    /\ hasOffsetToPos = FALSE
    /\ editorText = <<>>

\* a text and a list in any order that meets what the appliers ask of their
\* callers: spans that lie in the text and do not overlap
ApplyInit ==
    /\ \E n \in 0..MaxDocLen :
         /\ content \in Texts(n)
         /\ \E k \in 0..MaxReps : reps \in [1..k -> RepsIn(n)]
    /\ NonOverlapping(reps)
    /\ applyPc = "input"
    /\ contentResult = <<>>
    /\ hasOffsetToPos = FALSE
    /\ editorText = content

\* any replacements, whether their span lies in a text of n characters or
\* not: an end before the start, an offset after the end of the text
RepsAny(n) == [start : 0..(n + 1), end : 0..(n + 1), text : RepTexts]

\* a text and any list: the appliers take whatever list they are given
ApplyInitAny ==
    /\ \E n \in 0..MaxDocLen :
         /\ content \in Texts(n)
         /\ \E k \in 0..MaxReps : reps \in [1..k -> RepsAny(n)]
    /\ applyPc = "input"
    /\ contentResult = <<>>
    /\ hasOffsetToPos = FALSE
    /\ editorText = content

\* const newContent = this.applyReplacementsToContent(content, replacements)
ApplyToContent ==
    /\ applyPc = "input"
    /\ contentResult' = applyReplacementsToContent(content, reps)
    /\ applyPc' = "content"
    /\ UNCHANGED <<cmdVars, loopVars, modalVars, histVars, envVars, content, reps,
                   hasOffsetToPos, editorText, extractVars, normVars, preVars, hookVars,
                   clientVars, initVars, clsVars, fixSingleVars>>

\* applyReplacementsReverse(editor, replacements) on an editor that holds the
\* same text, with or without the method offsetToPos; the list is sorted in place
ApplyReverse ==
    /\ applyPc = "content"
    /\ \E viaEditor \in BOOLEAN :
         /\ hasOffsetToPos' = viaEditor
         /\ editorText' = applyReplacementsReverse(content, reps, viaEditor)
    /\ reps' = SortByStartDesc(reps)
    /\ applyPc' = "done"
    /\ UNCHANGED <<cmdVars, loopVars, modalVars, histVars, envVars, content, contentResult,
                   extractVars, normVars, preVars, hookVars, clientVars, initVars, clsVars,
                   fixSingleVars>>

ApplyNext ==
    \/ ApplyToContent
    \/ ApplyReverse

(***************************************************************************)
(* Claims about the appliers.                                              *)
(***************************************************************************)
\* the list in the order p
Reordered(list, p) == [i \in 1..Len(list) |-> list[p[i]]]

\* the texts of the replacements of the list from the i-th on that start at
\* offset p and whose span is empty (wantEmpty) or not, in the order of the list
RECURSIVE TextsAt(_, _, _, _)
TextsAt(list, p, wantEmpty, i) ==
    IF i > Len(list) THEN <<>>
    ELSE (IF list[i].start = p /\ (list[i].end = p) = wantEmpty THEN list[i].text ELSE <<>>)
           \o TextsAt(list, p, wantEmpty, i + 1)

\* the text with each span replaced by its replacement text, read off the text
\* place by place: at each offset the texts put in at that offset (empty
\* spans), then the text of the span that starts there, then the character of
\* the text unless a span covers it
RECURSIVE SplicedFrom(_, _, _)
SplicedFrom(str, list, p) ==
    LET ins == TextsAt(list, p, TRUE, 1) \o TextsAt(list, p, FALSE, 1)
        covered == \E i \in 1..Len(list) : list[i].start <= p /\ p < list[i].end
    IN IF p >= Len(str) THEN ins
       ELSE ins \o (IF covered THEN <<>> ELSE <<str[p + 1]>>) \o SplicedFrom(str, list, p + 1)

Spliced(str, list) == SplicedFrom(str, list, 0)

\* C6 (as claimed): for non-overlapping in-bounds replacements the result of
\* applyReplacementsToContent is the same for every order of the list and is
\* the text with each span replaced
C6_OrderIndependentAsClaimed ==
    (applyPc \in {"content", "done"} /\ InBounds(content, reps) /\ NonOverlapping(reps))
    => \A p \in Permutations(1..Len(reps)) :
           /\ applyReplacementsToContent(content, Reordered(reps, p)) = contentResult
           /\ contentResult = Spliced(content, reps)

\* C6: for non-overlapping in-bounds replacements of which no two start at the
\* same offset, the result of applyReplacementsToContent is the same for every
\* order of the list and is the text with each span replaced
C6_OrderIndependent ==
    (applyPc \in {"content", "done"} /\ InBounds(content, reps) /\ NonOverlapping(reps)
       /\ DistinctStarts(reps))
    => \A p \in Permutations(1..Len(reps)) :
           /\ applyReplacementsToContent(content, Reordered(reps, p)) = contentResult
           /\ contentResult = Spliced(content, reps)

\* two replacements of different lengths given in ascending order were applied
C6_Witness ==
    /\ applyPc = "content"
    /\ Len(reps) = 2
    /\ InBounds(content, reps) /\ NonOverlapping(reps) /\ DistinctStarts(reps)
    /\ reps[1].start < reps[2].start
    /\ reps[1].end > reps[1].start
    /\ Len(reps[1].text) # reps[1].end - reps[1].start
    /\ contentResult # content

\* C7 (as claimed): after applyReplacementsReverse on non-overlapping in-bounds
\* replacements the editor holds the text with each span replaced, every
\* character outside the spans kept, which is what applyReplacementsToContent
\* returns
C7_ReverseAsClaimed ==
    (applyPc = "done" /\ InBounds(content, reps) /\ NonOverlapping(reps))
    => /\ editorText = Spliced(content, reps)
       /\ editorText = contentResult

\* C7: after applyReplacementsReverse on non-overlapping in-bounds replacements
\* of which no two start at the same offset the editor holds the text with
\* each span replaced, every character outside the spans kept, which is what
\* applyReplacementsToContent returns
C7_Reverse ==
    (applyPc = "done" /\ InBounds(content, reps) /\ NonOverlapping(reps)
       /\ DistinctStarts(reps))
    => /\ editorText = Spliced(content, reps)
       /\ editorText = contentResult

\* two replacements were applied through offsetToPosFallback to a text with a
\* newline, the one applied first (the list is sorted now) bringing a newline
\* of its own
C7_Witness ==
    /\ applyPc = "done"
    /\ ~hasOffsetToPos
    /\ Len(reps) = 2
    /\ InBounds(content, reps) /\ NonOverlapping(reps) /\ DistinctStarts(reps)
    /\ reps[1].start > reps[2].start
    /\ reps[2].end > reps[2].start
    /\ reps[1].text = <<"Y", "\n">>
    /\ \E i \in 1..Len(content) : content[i] = "\n"
    /\ editorText # content

\* C23 (as claimed): for a list that violates the precondition (a span out of
\* the bounds of the text, a start after its end, two overlapping spans) the
\* appliers end in an error and leave the document as it was: neither the
\* text returned for vault.modify nor the text of the editor differs from it
C23_InvalidListNotApplied ==
    (applyPc = "done" /\ ~(InBounds(content, reps) /\ NonOverlapping(reps)))
    => /\ contentResult = content
       /\ editorText = content


(***************************************************************************)
(* extractMermaidBlocks: the regular expression, character by character.   *)
(* Offsets count from 0 as in the code; At(s, i) is the character at i.    *)
(***************************************************************************)
At(s, i) == s[i + 1]

\* the character U+0060 (a string of the model cannot hold it)
Backtick == "backtick"

Blanks == {" ", "\t"}

\* the flag i: the letters of the tag in lower case
UpperCase ==
    <<"A", "B", "C", "D", "E", "F", "G", "H", "I", "J", "K", "L", "M",
      "N", "O", "P", "Q", "R", "S", "T", "U", "V", "W", "X", "Y", "Z">>

LowerCase ==
    <<"a", "b", "c", "d", "e", "f", "g", "h", "i", "j", "k", "l", "m",
      "n", "o", "p", "q", "r", "s", "t", "u", "v", "w", "x", "y", "z">>

Lower(c) ==
    IF \E k \in 1..Len(UpperCase) : UpperCase[k] = c
    THEN LowerCase[CHOOSE k \in 1..Len(UpperCase) : UpperCase[k] = c]
    ELSE c

Mermaid == <<"m", "e", "r", "m", "a", "i", "d">>

\* [ \t]* from i: the offset after the blanks
RECURSIVE SkipBlanks(_, _)
SkipBlanks(s, i) ==
    IF i < Len(s) /\ At(s, i) \in Blanks THEN SkipBlanks(s, i + 1) ELSE i

\* c* from i: the offset after the run of the character c
RECURSIVE RunEnd(_, _, _)
RunEnd(s, i, c) ==
    IF i < Len(s) /\ At(s, i) = c THEN RunEnd(s, i + 1, c) ELSE i

\* the word w stands at offset i of s, letters compared in lower case
StartsWith(s, i, w) ==
    /\ i + Len(w) <= Len(s)
    /\ \A k \in 1..Len(w) : Lower(s[i + k]) = w[k]

\* the offset of the first "\n" at or after i, -1 if there is none
RECURSIVE FindNewline(_, _)
FindNewline(s, i) ==
    IF i >= Len(s) THEN -1
    ELSE IF At(s, i) = "\n" THEN i ELSE FindNewline(s, i + 1)

\* ^ with the flag m: the start of the text or just after a line terminator
AtLineStart(s, i) == i = 0 \/ At(s, i - 1) \in {"\n", "\r"}

\* (?=\r?\n|$) with the flag m: a line terminator or the end of the text comes
AtLineEnd(s, i) == i = Len(s) \/ At(s, i) \in {"\n", "\r"}

\* [ \t]*\3[ \t]*(?=\r?\n|$) from j, the fence \3 being n times the character
\* c: the offset where the match ends, -1 if it does not match
CloseAt(s, j, c, n) ==
    LET j1 == SkipBlanks(s, j)
        j2 == j1 + n
        j3 == SkipBlanks(s, j2)
    IN IF j2 <= Len(s) /\ (\A k \in 1..n : s[j1 + k] = c) /\ AtLineEnd(s, j3)
       THEN j3 ELSE -1

\* ([\s\S]*?)(?:\n[ \t]*\3[ \t]*)(?=\r?\n|$) from cs: the offset of the first
\* "\n" at or after k that the closing fence follows, -1 if there is none
RECURSIVE FirstClose(_, _, _, _)
FirstClose(s, k, c, n) ==
    IF k >= Len(s) THEN -1
    ELSE IF At(s, k) = "\n" /\ CloseAt(s, k + 1, c, n) >= 0 THEN k
    ELSE FirstClose(s, k + 1, c, n)

NoMatch == [found |-> FALSE]

\* the expression after its first group, from q:
\* ([ \t]*)(`{3,}|~{3,})[ \t]*mermaid([^\n]*)\n([\s\S]*?)(?:\n[ \t]*\3[ \t]*)(?=\r?\n|$)
\* (a shorter indent or a shorter fence than the longest never leads to a
\* match: the next character would have to be a fence character or the tag);
\* codeFrom and codeTo are the place of group 5 in the text
MatchRest(s, q) ==
    LET i1 == SkipBlanks(s, q)
        c == IF i1 < Len(s) THEN At(s, i1) ELSE ""
        i2 == RunEnd(s, i1, c)
        i3 == SkipBlanks(s, i2)
        nl == FindNewline(s, i3 + Len(Mermaid))
        ce == FirstClose(s, nl + 1, c, i2 - i1)
    IN IF c \in {Backtick, "~"} /\ i2 - i1 >= 3 /\ StartsWith(s, i3, Mermaid) /\ nl >= 0 /\ ce >= 0
       THEN [found |-> TRUE, fence |-> SubSeq(s, i1 + 1, i2), codeFrom |-> nl + 1,
             codeTo |-> ce, end |-> CloseAt(s, ce + 1, c, i2 - i1)]
       ELSE NoMatch

\* the whole expression at offset p: (^|\r?\n) and the rest, the alternatives
\* of the first group in their order
MatchAt(s, p) ==
    LET viaStart == IF AtLineStart(s, p) THEN MatchRest(s, p) ELSE NoMatch
        q == IF p < Len(s) /\ At(s, p) = "\n" THEN p + 1
             ELSE IF p + 1 < Len(s) /\ At(s, p) = "\r" /\ At(s, p + 1) = "\n" THEN p + 2
             ELSE -1
    IN IF viaStart.found THEN viaStart
       ELSE IF q >= 0 THEN MatchRest(s, q)
       ELSE NoMatch

\* re.exec(text) with the flag g: the first offset from lastIndex on where the
\* expression matches; index is m.index
RECURSIVE Exec(_, _)
Exec(s, from) ==
    IF from > Len(s) THEN NoMatch
    ELSE LET m == MatchAt(s, from)
         IN IF m.found THEN m @@ [index |-> from]
            ELSE Exec(s, from + 1)

\* String.prototype.indexOf(w): the offset of the first place where w stands
\* in s, -1 if there is none
RECURSIVE IndexOfFrom(_, _, _)
IndexOfFrom(s, w, i) ==
    IF i + Len(w) > Len(s) THEN -1
    ELSE IF SubSeq(s, i + 1, i + Len(w)) = w THEN i
    ELSE IndexOfFrom(s, w, i + 1)

IndexOf(s, w) == IndexOfFrom(s, w, 0)

\* a plausible slip: the offset of the match is taken for the offset of the code
RelStartIsZero(whole, code) == 0

\* const relStartInWhole = m[0].indexOf(code)
RelStartInWhole(whole, code) == IndexOf(whole, code)

\* the body of the while loop for the match m: the block that is pushed
\* (codeAt: the place of group 5, which the code does not look at)
BlockOf(s, m, index) ==
    LET whole == SubSeq(s, m.index + 1, m.end)
        code == SubSeq(s, m.codeFrom + 1, m.codeTo)
        startOffset == m.index + RelStartInWhole(whole, code)
    IN [startOffset |-> startOffset, endOffset |-> startOffset + Len(code),
        fenceClose |-> m.fence, code |-> code, index |-> index, codeAt |-> m.codeFrom]

(***************************************************************************)
(* extractMermaidBlocks runs on a document.                                *)
(***************************************************************************)
\* the pieces the documents are put together from: an opening fence line and
\* a closing fence with the newline before it, of backticks and of tildes; a
\* newline, a letter, the tag; a whole block with its last newline
Pieces == << <<Backtick, Backtick, Backtick, "m", "e", "r", "m", "a", "i", "d", "\n">>,
             <<"\n", Backtick, Backtick, Backtick>>,
             <<"~", "~", "~", "m", "e", "r", "m", "a", "i", "d", "\n">>,
             <<"\n", "~", "~", "~">>,
             <<"\n">>,
             <<"x">>,
             <<"m", "e", "r", "m", "a", "i", "d">>,
             <<Backtick, Backtick, Backtick, "m", "e", "r", "m", "a", "i", "d", "\n",
               "y", "\n", Backtick, Backtick, Backtick, "\n">> >>

\* the pieces f[1], ..., f[k] one after another
RECURSIVE Concat(_, _)
Concat(f, k) == IF k = 0 THEN <<>> ELSE Concat(f, k - 1) \o Pieces[f[k]]

\* extractMermaidBlocks does not run
ExtractIdle ==
    /\ text = <<>>
    /\ lastIndex = 0
    /\ blocks = <<>>
    /\ idx = 0
    /\ extractPc = "idle"

\* extractMermaidBlocks(text) is called with a document
ExtractInit ==
    /\ \E k \in 0..MaxPieces :
         \E f \in [1..k -> 1..Len(Pieces)] : text = Concat(f, k)
    /\ lastIndex = 0
    /\ blocks = <<>>
    /\ idx = 0
    /\ extractPc = "loop"

\* the pieces the info strings are put together from: the tag, a letter, a
\* hyphen, a blank
TagPieces == << <<"m", "e", "r", "m", "a", "i", "d">>, <<"x">>, <<"-">>, <<" ">> >>

\* the pieces f[1], ..., f[k] one after another
RECURSIVE TagConcat(_, _)
TagConcat(f, k) == IF k = 0 THEN <<>> ELSE TagConcat(f, k - 1) \o TagPieces[f[k]]

\* the document that is one fenced block with the info string info
FencedWith(info) ==
    <<Backtick, Backtick, Backtick>> \o info \o <<"\n", "y", "\n", Backtick, Backtick, Backtick>>

\* extractMermaidBlocks(text) is called with a document of one fenced block
\* of some language
ExtractInitTagged ==
    /\ \E k \in 0..MaxTagPieces :
         \E f \in [1..k -> 1..Len(TagPieces)] : text = FencedWith(TagConcat(f, k))
    /\ lastIndex = 0
    /\ blocks = <<>>
    /\ idx = 0
    /\ extractPc = "loop"

\* one turn of while ((m = re.exec(text)) !== null): a block is pushed
\* (relStartInWhole < 0 cannot be: the code is a part of the match)
ExtractBlock ==
    /\ extractPc = "loop"
    /\ LET m == Exec(text, lastIndex)
       IN /\ m.found
          /\ blocks' = Append(blocks, BlockOf(text, m, idx))
          /\ idx' = idx + 1
          /\ lastIndex' = m.end
    /\ UNCHANGED <<cmdVars, loopVars, modalVars, histVars, envVars, applyVars, text,
                   extractPc, normVars, preVars, hookVars, clientVars, initVars, clsVars,
                   fixSingleVars>>

\* re.exec(text) returns null (and sets lastIndex to 0): return blocks
ExtractReturn ==
    /\ extractPc = "loop"
    /\ ~Exec(text, lastIndex).found
    /\ lastIndex' = 0
    /\ extractPc' = "done"
    /\ UNCHANGED <<cmdVars, loopVars, modalVars, histVars, envVars, applyVars, text, blocks,
                   idx, normVars, preVars, hookVars, clientVars, initVars, clsVars,
                   fixSingleVars>>

ExtractNext ==
    \/ ExtractBlock
    \/ ExtractReturn

(***************************************************************************)
(* Claims about extractMermaidBlocks.                                      *)
(***************************************************************************)
\* the line is an opening fence line: blanks, three or more of one fence
\* character, blanks, the tag
IsOpeningFenceLine(line) ==
    LET i1 == SkipBlanks(line, 0)
        c == IF i1 < Len(line) THEN At(line, i1) ELSE ""
        i2 == RunEnd(line, i1, c)
    IN c \in {Backtick, "~"} /\ i2 - i1 >= 3 /\ StartsWith(line, SkipBlanks(line, i2), Mermaid)

\* the document has no mermaid fence
NoMermaidFence(s) ==
    \A k \in 1..Len(SplitLines(s)) : ~IsOpeningFenceLine(SplitLines(s)[k])

\* C8: every block returned by extractMermaidBlocks has
\* 0 <= startOffset <= endOffset <= length of the document, the slice of the
\* document between its offsets is its code, its index is its place in the
\* result counted from 0, the blocks ascend strictly in startOffset and no two
\* spans overlap; a document without mermaid fences gives no block
C8_ExtractRoundTrip ==
    /\ \A i \in 1..Len(blocks) :
         /\ 0 <= blocks[i].startOffset
         /\ blocks[i].startOffset <= blocks[i].endOffset
         /\ blocks[i].endOffset <= Len(text)
         /\ Slice(text, blocks[i].startOffset, blocks[i].endOffset) = blocks[i].code
         /\ blocks[i].index = i - 1
         /\ \A j \in 1..Len(blocks) :
              i < j => /\ blocks[i].startOffset < blocks[j].startOffset
                       /\ blocks[i].endOffset <= blocks[j].startOffset
    /\ NoMermaidFence(text) => blocks = <<>>

\* two blocks were returned, the code of the first not empty
C8_Witness ==
    /\ extractPc = "done"
    /\ Len(blocks) = 2
    /\ blocks[1].code # <<>>
    /\ blocks[2].startOffset > blocks[1].endOffset

\* C9 (as claimed): the span of every block starts just after the newline
\* that ends the opening fence line and ends where the code ends, so that it
\* holds no character of either fence line
C9_SpanIsFenceBody ==
    \A i \in 1..Len(blocks) :
        /\ blocks[i].startOffset = blocks[i].codeAt
        /\ blocks[i].endOffset = blocks[i].codeAt + Len(blocks[i].code)

\* the offset after the run of characters that are neither blanks nor newlines
RECURSIVE WordEnd(_, _)
WordEnd(s, i) ==
    IF i < Len(s) /\ At(s, i) \notin Blanks \cup {"\n", "\r"} THEN WordEnd(s, i + 1) ELSE i

\* the language tag of the fence that opens the document: the first word of
\* the info string, in lower case
LanguageTag(s) ==
    LET i1 == SkipBlanks(s, 0)
        i2 == RunEnd(s, i1, IF i1 < Len(s) THEN At(s, i1) ELSE "")
        i3 == SkipBlanks(s, i2)
    IN [k \in 1..(WordEnd(s, i3) - i3) |-> Lower(s[i3 + k])]

\* C24 (as claimed): a fenced block is returned only if the language tag of
\* its fence is the tag mermaid; a tag that merely begins with the letters of
\* the tag gives no block
C24_OnlyMermaidTag ==
    (extractPc = "done" /\ blocks # <<>>) => LanguageTag(text) = Mermaid


(***************************************************************************)
(* preNormalizeMermaid and normalizeSurface of the correction client,      *)
(* character by character.                                                 *)
(***************************************************************************)
\* characters that a string of the model names: U+005C, U+0022, the
\* zero-width characters U+200B-U+200D and U+2060, U+FEFF, the dashes
\* U+2212 U+30FC U+2015, and U+3000
Backslash == "\\"

Quote == "\""

ZeroWidth == "zw"

Bom == "bom"

WideDash == "dash"

WideSpace == "wsp"

\* the class \s
IsSpace(c) == c \in {" ", "\t", "\n", "\r", WideSpace, Bom}

\* \s* from i: the offset after the white space
RECURSIVE SkipSpace(_, _)
SkipSpace(s, i) ==
    IF i < Len(s) /\ IsSpace(At(s, i)) THEN SkipSpace(s, i + 1) ELSE i

\* the offset of the first character of the set cs at or after i, -1 if
\* there is none
RECURSIVE FindAny(_, _, _)
FindAny(s, i, cs) ==
    IF i >= Len(s) THEN -1
    ELSE IF At(s, i) \in cs THEN i ELSE FindAny(s, i + 1, cs)

\* /<br\s*\/?>/i at offset k: the offset where the match ends, -1 if none
MatchBr(s, k) ==
    LET j == SkipSpace(s, k + 3)
        j2 == IF j < Len(s) /\ At(s, j) = "/" THEN j + 1 ELSE j
    IN IF /\ k + 3 <= Len(s)
          /\ At(s, k) = "<"
          /\ At(s, k + 1) \in {"b", "B"}
          /\ At(s, k + 2) \in {"r", "R"}
          /\ j2 < Len(s)
          /\ At(s, j2) = ">"
       THEN j2 + 1 ELSE -1

\* inner.replace(/<br\s*\/?>/gi, "\\n") from offset k on
RECURSIVE BrToNewline(_, _)
BrToNewline(s, k) ==
    IF k >= Len(s) THEN <<>>
    ELSE IF MatchBr(s, k) >= 0 THEN <<Backslash, "n">> \o BrToNewline(s, MatchBr(s, k))
    ELSE <<At(s, k)>> \o BrToNewline(s, k + 1)

\* step 1, from offset i on: code.replace(/\[([\s\S]*?)\]/g, ...)
RECURSIVE ReplaceBrInLabels(_, _)
ReplaceBrInLabels(s, i) ==
    LET p == FindAny(s, i, {"["})
        q == FindAny(s, p + 1, {"]"})
    IN IF p < 0 \/ q < 0 THEN SubSeq(s, i + 1, Len(s))
       ELSE SubSeq(s, i + 1, p) \o <<"[">> \o BrToNewline(SubSeq(s, p + 2, q), 0)
              \o <<"]">> \o ReplaceBrInLabels(s, q + 1)

\* /^".*"$/.test(inner)
AlreadyQuoted(inner) ==
    /\ Len(inner) >= 2
    /\ inner[1] = Quote
    /\ inner[Len(inner)] = Quote
    /\ \A k \in 2..(Len(inner) - 1) : inner[k] \notin {"\n", "\r"}

\* /\\n|[<>]|"|,|\(|\)|\{|\}|:/.test(inner)
NeedsQuote(inner) ==
    \/ \E k \in 1..(Len(inner) - 1) : inner[k] = Backslash /\ inner[k + 1] = "n"
    \/ \E k \in 1..Len(inner) : inner[k] \in {"<", ">", Quote, ",", "(", ")", "{", "}", ":"}

\* inner.replace(/"/g, '\\"')
RECURSIVE EscapeQuotes(_)
EscapeQuotes(s) ==
    IF s = <<>> THEN <<>>
    ELSE (IF Head(s) = Quote THEN <<Backslash, Quote>> ELSE <<Head(s)>>) \o EscapeQuotes(Tail(s))

\* the callback of step 2 on the label m = [inner]
QuoteLabel(inner) ==
    IF AlreadyQuoted(inner) \/ ~NeedsQuote(inner) THEN <<"[">> \o inner \o <<"]">>
    ELSE <<"[", Quote>> \o EscapeQuotes(inner) \o <<Quote, "]">>

\* step 2, from offset i on: out.replace(/\[([^\]\n]*)\]/g, ...)
RECURSIVE QuoteLabels(_, _)
QuoteLabels(s, i) ==
    LET p == FindAny(s, i, {"["})
        q == FindAny(s, p + 1, {"]", "\n"})
    IN IF p < 0 THEN SubSeq(s, i + 1, Len(s))
       ELSE IF q >= 0 /\ At(s, q) = "]"
            THEN SubSeq(s, i + 1, p) \o QuoteLabel(SubSeq(s, p + 2, q)) \o QuoteLabels(s, q + 1)
            ELSE SubSeq(s, i + 1, p + 1) \o QuoteLabels(s, p + 1)

\* the characters of s that are not in cs
RECURSIVE Without(_, _)
Without(s, cs) ==
    IF s = <<>> THEN <<>>
    ELSE (IF Head(s) \in cs THEN <<>> ELSE <<Head(s)>>) \o Without(Tail(s), cs)

\* .replace(/[ \t]+$/gm, "") from offset k on: the blanks that only blanks
\* separate from the end of their line go
RECURSIVE StripLineEnds(_, _)
StripLineEnds(s, k) ==
    IF k >= Len(s) THEN <<>>
    ELSE (IF At(s, k) \in Blanks /\ AtLineEnd(s, SkipBlanks(s, k)) THEN <<>> ELSE <<At(s, k)>>)
           \o StripLineEnds(s, k + 1)

\* normalizeSurface(s)
normalizeSurface(s) ==
    LET noBom == Without(s, {Bom})
        noZw == Without(noBom, {ZeroWidth})
        dashed == [k \in 1..Len(noZw) |-> IF noZw[k] = WideDash THEN "-" ELSE noZw[k]]
        spaced == [k \in 1..Len(dashed) |-> IF dashed[k] = WideSpace THEN " " ELSE dashed[k]]
    IN StripLineEnds(spaced, 0)

\* preNormalizeMermaid(code) of the correction client
preNormalizeMermaid(code) ==
    normalizeSurface(QuoteLabels(ReplaceBrInLabels(code, 0), 0))

(***************************************************************************)
(* The normalization runs on a text, and on its own result.                *)
(***************************************************************************)
\* the pieces the texts are put together from
NormPieces == << <<"[">>, <<"]">>, <<"<">>, <<"b", "r", ">">>, <<ZeroWidth>>,
                 <<Quote>>, <<" ">> >>

\* the pieces f[1], ..., f[k] one after another
RECURSIVE NormConcat(_, _)
NormConcat(f, k) == IF k = 0 THEN <<>> ELSE NormConcat(f, k - 1) \o NormPieces[f[k]]

\* the normalization does not run
NormIdle ==
    /\ normIn = <<>>
    /\ normOnce = <<>>
    /\ normTwice = <<>>
    /\ normPc = "idle"

\* a text is about to be normalized
NormInit ==
    /\ \E k \in 0..MaxNormPieces :
         \E f \in [1..k -> 1..Len(NormPieces)] : normIn = NormConcat(f, k)
    /\ normOnce = <<>>
    /\ normTwice = <<>>
    /\ normPc = "input"

\* const pre = preNormalizeMermaid(original)
Normalize ==
    /\ normPc = "input"
    /\ normOnce' = preNormalizeMermaid(normIn)
    /\ normPc' = "once"
    /\ UNCHANGED <<cmdVars, loopVars, modalVars, histVars, envVars, applyVars, extractVars,
                   normIn, normTwice, preVars, hookVars, clientVars, initVars, clsVars,
                   fixSingleVars>>

\* the result is normalized once more
NormalizeAgain ==
    /\ normPc = "once"
    /\ normTwice' = preNormalizeMermaid(normOnce)
    /\ normPc' = "twice"
    /\ UNCHANGED <<cmdVars, loopVars, modalVars, histVars, envVars, applyVars, extractVars,
                   normIn, normOnce, preVars, hookVars, clientVars, initVars, clsVars,
                   fixSingleVars>>

NormNext ==
    \/ Normalize
    \/ NormalizeAgain

(***************************************************************************)
(* Claims about the normalization.                                         *)
(***************************************************************************)
\* C10 (as claimed): normalizing the result of the normalization once more
\* changes nothing
C10_NormalizeIdempotent ==
    normPc = "twice" => normTwice = normOnce


(***************************************************************************)
(* preNormalizeMermaid of utils, which validateMermaidAsync applies to its *)
(* argument: the regular expression                                        *)
(*   ([A-Za-z0-9_\-]+)\s*(\[|\(|\{{1,2})\s*([\s\S]*?)\s*(\]|\)|\}{1,2})    *)
(* character by character (the quantifier {1,2} binds to the brace alone). *)
(***************************************************************************)
\* the characters of the class [A-Za-z0-9_\-] that the texts of the model hold
IdChars == {"A", "b", "r", "B", "R", "n", "0", "_", "-"}

OpenChars == {"[", "(", "{"}

CloseChars == {"]", ")", "}"}

\* [A-Za-z0-9_\-]+ from i, greedy: the offset after the run
RECURSIVE IdRunEnd(_, _)
IdRunEnd(s, i) ==
    IF i < Len(s) /\ At(s, i) \in IdChars THEN IdRunEnd(s, i + 1) ELSE i

\* (\[|\(|\{{1,2}) at a: the offset after the opening shape, -1 if none
OpenEnd(s, a) ==
    IF a >= Len(s) \/ At(s, a) \notin OpenChars THEN -1
    ELSE IF At(s, a) = "{" /\ a + 1 < Len(s) /\ At(s, a + 1) = "{" THEN a + 2
    ELSE a + 1

\* (\]|\)|\}{1,2}) at c, which holds a closing character: the offset after it
CloseEnd(s, c) ==
    IF At(s, c) = "}" /\ c + 1 < Len(s) /\ At(s, c + 1) = "}" THEN c + 2 ELSE c + 1

\* ([\s\S]*?)\s*(close) from e, lazy: the first offset at or after e from
\* which white space and then a closing character follow, -1 if there is none
RECURSIVE LabelEnd(_, _)
LabelEnd(s, e) ==
    IF e >= Len(s) THEN -1
    ELSE IF SkipSpace(s, e) < Len(s) /\ At(s, SkipSpace(s, e)) \in CloseChars THEN e
    ELSE LabelEnd(s, e + 1)

\* the expression at offset p: the places of its four groups and its end
MatchShape(s, p) ==
    LET idEnd == IdRunEnd(s, p)
        a == SkipSpace(s, idEnd)
        openEnd == OpenEnd(s, a)
        labFrom == SkipSpace(s, openEnd)
        labTo == LabelEnd(s, labFrom)
        c == SkipSpace(s, labTo)
    IN IF idEnd > p /\ openEnd >= 0 /\ labTo >= 0
       THEN [found |-> TRUE, index |-> p,
             id |-> SubSeq(s, p + 1, idEnd), open |-> SubSeq(s, a + 1, openEnd),
             label |-> SubSeq(s, labFrom + 1, labTo),
             close |-> SubSeq(s, c + 1, CloseEnd(s, c)), end |-> CloseEnd(s, c)]
       ELSE NoMatch

\* the first match at or after the offset from
RECURSIVE ExecShape(_, _)
ExecShape(s, from) ==
    IF from >= Len(s) THEN NoMatch
    ELSE IF MatchShape(s, from).found THEN MatchShape(s, from)
    ELSE ExecShape(s, from + 1)

\* /<br\s*\/?\s*>/i at offset k: the offset where the match ends, -1 if none
MatchBrLoose(s, k) ==
    LET j == SkipSpace(s, k + 3)
        j2 == IF j < Len(s) /\ At(s, j) = "/" THEN SkipSpace(s, j + 1) ELSE j
    IN IF /\ k + 3 <= Len(s)
          /\ At(s, k) = "<"
          /\ At(s, k + 1) \in {"b", "B"}
          /\ At(s, k + 2) \in {"r", "R"}
          /\ j2 < Len(s)
          /\ At(s, j2) = ">"
       THEN j2 + 1 ELSE -1

\* /<br\s*\/?\s*>/i.test(label)
HasBr(label) == \E k \in 0..(Len(label) - 1) : MatchBrLoose(label, k) >= 0

\* a plausible slip: the flag g is missing and only the first tag is replaced
RECURSIVE BrToNewlineFirstOnly(_, _)
BrToNewlineFirstOnly(s, k) ==
    IF k >= Len(s) THEN <<>>
    ELSE IF MatchBrLoose(s, k) >= 0
         THEN <<Backslash, "n">> \o SubSeq(s, MatchBrLoose(s, k) + 1, Len(s))
    ELSE <<At(s, k)>> \o BrToNewlineFirstOnly(s, k + 1)

\* label.replace(/<br\s*\/?\s*>/gi, "\\n") from offset k on
RECURSIVE BrToNewlineLoose(_, _)
BrToNewlineLoose(s, k) ==
    IF k >= Len(s) THEN <<>>
    ELSE IF MatchBrLoose(s, k) >= 0
         THEN <<Backslash, "n">> \o BrToNewlineLoose(s, MatchBrLoose(s, k))
    ELSE <<At(s, k)>> \o BrToNewlineLoose(s, k + 1)

\* String.prototype.trim
RECURSIVE Trim(_)
Trim(s) ==
    IF s = <<>> THEN <<>>
    ELSE IF IsSpace(Head(s)) THEN Trim(Tail(s))
    ELSE IF IsSpace(s[Len(s)]) THEN Trim(SubSeq(s, 1, Len(s) - 1))
    ELSE s

\* the callback of code.replace on the match m
ShapeCallback(s, m) ==
    LET replaced == BrToNewlineLoose(m.label, 0)
        trimmed == Trim(replaced)
        wrapped == IF AlreadyQuoted(trimmed) THEN trimmed
                   ELSE <<Quote>> \o trimmed \o <<Quote>>
    IN IF ~HasBr(m.label) THEN SubSeq(s, m.index + 1, m.end)
       ELSE m.id \o m.open \o wrapped \o m.close

\* code.replace(re, callback) from offset i on
RECURSIVE ReplaceShapes(_, _)
ReplaceShapes(s, i) ==
    LET m == ExecShape(s, i)
    IN IF ~m.found THEN SubSeq(s, i + 1, Len(s))
       ELSE SubSeq(s, i + 1, m.index) \o ShapeCallback(s, m) \o ReplaceShapes(s, m.end)

\* preNormalizeMermaid(code) of utils
utilsPreNormalizeMermaid(code) == ReplaceShapes(code, 0)

(***************************************************************************)
(* The validator's normalization runs on a text, and on its own result.    *)
(***************************************************************************)
\* the pieces the texts are put together from
ValPieces == << <<"A">>, <<"[">>, <<"]">>, <<"{">>, <<"}">>, <<" ">>,
                <<"<", "b", "r", ">">>, <<Quote>> >>

\* the pieces f[1], ..., f[k] one after another
RECURSIVE ValConcat(_, _)
ValConcat(f, k) == IF k = 0 THEN <<>> ELSE ValConcat(f, k - 1) \o ValPieces[f[k]]

\* the normalization does not run
PreIdle ==
    /\ preIn = <<>>
    /\ preOnce = <<>>
    /\ preTwice = <<>>
    /\ prePc = "idle"

\* a text is about to be validated
PreInit ==
    /\ \E k \in 0..MaxValPieces :
         \E f \in [1..k -> 1..Len(ValPieces)] : preIn = ValConcat(f, k)
    /\ preOnce = <<>>
    /\ preTwice = <<>>
    /\ prePc = "input"

\* const code = preNormalizeMermaid(codeRaw)
PreNormalize ==
    /\ prePc = "input"
    /\ preOnce' = utilsPreNormalizeMermaid(preIn)
    /\ prePc' = "once"
    /\ UNCHANGED <<cmdVars, loopVars, modalVars, histVars, envVars, applyVars, extractVars,
                   normVars, preIn, preTwice, hookVars, clientVars, initVars, clsVars,
                   fixSingleVars>>

\* the result is normalized once more
PreNormalizeAgain ==
    /\ prePc = "once"
    /\ preTwice' = utilsPreNormalizeMermaid(preOnce)
    /\ prePc' = "twice"
    /\ UNCHANGED <<cmdVars, loopVars, modalVars, histVars, envVars, applyVars, extractVars,
                   normVars, preIn, preOnce, hookVars, clientVars, initVars, clsVars,
                   fixSingleVars>>

PreNext ==
    \/ PreNormalize
    \/ PreNormalizeAgain

(***************************************************************************)
(* Claims about the validator's normalization.                             *)
(***************************************************************************)
\* C11: the normalization that validateMermaidAsync applies is idempotent:
\* normalizing its result once more gives the same text
C11_ValidatorNormalizeIdempotent ==
    prePc = "twice" => preTwice = preOnce

\* a label with a break tag was rewritten and quoted, and the second
\* application has run
C11_Witness ==
    /\ prePc = "twice"
    /\ preIn = <<"A", "[", "<", "b", "r", ">", "]">>
    /\ preOnce = <<"A", "[", Quote, Backslash, "n", Quote, "]">>

\* C26 (as claimed): the text that validateMermaidAsync hands to the parser is
\* the text it was called with, which the commands queue as the replacement
\* when the validation accepts (fixedCode = codeToValidate)
C26_ParsedIsQueued ==
    prePc \in {"once", "twice"} => preOnce = preIn

\* C37 (as claimed): the normalization of the validator (preNormalizeMermaid
\* of utils.ts) and the normalization of the correction client
\* (preNormalizeMermaid of gemini.ts) give the same text for every input
C37_SameNormalization ==
    prePc \in {"once", "twice"} => preOnce = preNormalizeMermaid(preIn)


(***************************************************************************)
(* validateMermaidAsync and the hook m.parseError.  The code of a call     *)
(* runs without interruption up to await r and from there to its return;   *)
(* other calls, started by another command, run in between.                *)
(***************************************************************************)
Validations == 1..MaxValidations

\* the values of m.parseError before the plugin touches it: undefined (0) or
\* a handler of the host (-1)
PriorHandlers == {0, -1}

\* what the parser entry point that is found (m.parse, m.mermaidAPI.parse or
\* m.render) does with a text: it accepts it, it throws (or its promise
\* rejects), or it reports through m.parseError and returns
ParserOutcomes == {"accepts", "throws", "reports"}

\* String(e?.str ?? e?.message ?? String(e)) of what the parser throws or
\* reports: the empty string if the message is empty
MessageOf(emptyMsg) == IF emptyMsg THEN "empty" ELSE "text"

\* the result { ok, error } at the end of the try statement: if (trappedError)
\* return { ok: false, error: trappedError }; return { ok: true }, and in the
\* catch block { ok: false, error: String(msg) }
ResultAfter(exit, emptyMsg) ==
    IF exit = "throws" THEN [ok |-> FALSE, error |-> MessageOf(emptyMsg)]
    ELSE IF exit = "noApi" THEN [ok |-> FALSE, error |-> "text"]
    ELSE IF exit = "reports" /\ ~emptyMsg THEN [ok |-> FALSE, error |-> "text"]
    ELSE [ok |-> TRUE, error |-> "absent"]

\* a plausible slip: the hook is restored at the end of the try block only
RestoresOnReturnOnly(exit) == exit # "throws"

\* the finally block runs on every exit of the try statement
RestoresOn(exit) == TRUE

\* m.parseError after the try statement of call v was left by the path exit
AfterFinally(v, exit) ==
    IF RestoresOn(exit) THEN prevParseError[v] ELSE parseError

\* no call of validateMermaidAsync has run
HookIdle ==
    /\ mermaidLoaded = FALSE
    /\ parseError = 0
    /\ priorHandler = 0
    /\ priorCalls = 0
    /\ vpc = [v \in Validations |-> "idle"]
    /\ prevParseError = [v \in Validations |-> 0]
    /\ heldAtStart = [v \in Validations |-> 0]
    /\ trappedError = [v \in Validations |-> 0]
    /\ reported = [v \in Validations |-> FALSE]
    /\ valExit = [v \in Validations |-> "none"]
    /\ valOk = [v \in Validations |-> FALSE]
    /\ trappedEmpty = [v \in Validations |-> FALSE]
    /\ valError = [v \in Validations |-> "absent"]

\* the commands are about to validate
HookInit ==
    /\ mermaidLoaded \in BOOLEAN
    /\ priorHandler \in PriorHandlers
    /\ parseError = priorHandler
    /\ priorCalls = 0
    /\ vpc = [v \in Validations |-> "idle"]
    /\ prevParseError = [v \in Validations |-> 0]
    /\ heldAtStart = [v \in Validations |-> 0]
    /\ trappedError = [v \in Validations |-> 0]
    /\ reported = [v \in Validations |-> FALSE]
    /\ valExit = [v \in Validations |-> "none"]
    /\ valOk = [v \in Validations |-> FALSE]
    /\ trappedEmpty = [v \in Validations |-> FALSE]
    /\ valError = [v \in Validations |-> "absent"]

\* if (!m) return { ok: false, ... }
ValNoMermaid(v) ==
    /\ vpc[v] = "idle"
    /\ ~mermaidLoaded
    /\ heldAtStart' = [heldAtStart EXCEPT ![v] = parseError]
    /\ vpc' = [vpc EXCEPT ![v] = "done"]
    /\ valExit' = [valExit EXCEPT ![v] = "noMermaid"]
    /\ valOk' = [valOk EXCEPT ![v] = FALSE]
    /\ valError' = [valError EXCEPT ![v] = "text"]
    /\ UNCHANGED <<cmdVars, loopVars, modalVars, histVars, envVars, applyVars, extractVars,
                   normVars, preVars, mermaidLoaded, parseError, priorHandler, priorCalls,
                   prevParseError, trappedError, reported, trappedEmpty, clientVars,
                   initVars, clsVars, fixSingleVars>>

\* a call whose parser returns no promise, or that finds no entry point: the
\* hook is saved and replaced, the parser runs, the finally block restores
ValSync(v) ==
    /\ vpc[v] = "idle"
    /\ mermaidLoaded
    /\ \E exit \in ParserOutcomes \cup {"noApi"}, emptyMsg \in BOOLEAN :
         /\ emptyMsg => exit \in {"throws", "reports"}
         /\ heldAtStart' = [heldAtStart EXCEPT ![v] = parseError]
         /\ prevParseError' = [prevParseError EXCEPT ![v] = parseError]
         /\ trappedError' = [trappedError EXCEPT ![v] = IF exit = "reports" THEN v ELSE 0]
         /\ trappedEmpty' = [trappedEmpty EXCEPT ![v] = (exit = "reports" /\ emptyMsg)]
         /\ reported' = [reported EXCEPT ![v] = (exit = "reports")]
         /\ parseError' = IF RestoresOn(exit) THEN parseError ELSE v
         /\ valExit' = [valExit EXCEPT ![v] = exit]
         /\ valOk' = [valOk EXCEPT ![v] = ResultAfter(exit, emptyMsg).ok]
         /\ valError' = [valError EXCEPT ![v] = ResultAfter(exit, emptyMsg).error]
         /\ vpc' = [vpc EXCEPT ![v] = "done"]
    /\ UNCHANGED <<cmdVars, loopVars, modalVars, histVars, envVars, applyVars, extractVars,
                   normVars, preVars, mermaidLoaded, priorHandler, priorCalls, clientVars,
                   initVars, clsVars, fixSingleVars>>

\* a call whose parser returns a promise: the hook is saved and replaced and
\* the call is suspended at await r
ValBegin(v) ==
    /\ vpc[v] = "idle"
    /\ mermaidLoaded
    /\ heldAtStart' = [heldAtStart EXCEPT ![v] = parseError]
    /\ prevParseError' = [prevParseError EXCEPT ![v] = parseError]
    /\ trappedError' = [trappedError EXCEPT ![v] = 0]
    /\ trappedEmpty' = [trappedEmpty EXCEPT ![v] = FALSE]
    /\ parseError' = v
    /\ vpc' = [vpc EXCEPT ![v] = "awaiting"]
    /\ UNCHANGED <<cmdVars, loopVars, modalVars, histVars, envVars, applyVars, extractVars,
                   normVars, preVars, mermaidLoaded, priorHandler, priorCalls, reported,
                   valExit, valOk, valError, clientVars, initVars, clsVars, fixSingleVars>>

\* the asynchronous parser of call v reports through m.parseError: the
\* function that is installed at this moment is invoked
ParserReports(v) ==
    /\ vpc[v] = "awaiting"
    /\ ~reported[v]
    /\ reported' = [reported EXCEPT ![v] = TRUE]
    /\ IF parseError > 0
       THEN /\ trappedError' = [trappedError EXCEPT ![parseError] = v]
            /\ \E emptyMsg \in BOOLEAN :
                 trappedEmpty' = [trappedEmpty EXCEPT ![parseError] = emptyMsg]
            /\ UNCHANGED priorCalls
       ELSE /\ priorCalls' = priorCalls + (IF parseError = -1 THEN 1 ELSE 0)
            /\ UNCHANGED <<trappedError, trappedEmpty>>
    /\ UNCHANGED <<cmdVars, loopVars, modalVars, histVars, envVars, applyVars, extractVars,
                   normVars, preVars, mermaidLoaded, parseError, priorHandler, vpc,
                   prevParseError, heldAtStart, valExit, valOk, valError, clientVars,
                   initVars, clsVars, fixSingleVars>>

\* the promise of the parser of call v settles: the call goes on after
\* await r (or in the catch block) and returns through the finally block
ValEnd(v) ==
    /\ vpc[v] = "awaiting"
    /\ \E settles \in {"resolves", "rejects"}, emptyMsg \in BOOLEAN :
         LET exit == IF settles = "rejects" THEN "throws"
                     ELSE IF trappedError[v] # 0 THEN "reports"
                     ELSE "accepts"
             empty == IF exit = "throws" THEN emptyMsg ELSE trappedEmpty[v]
         IN /\ emptyMsg => settles = "rejects"
            /\ parseError' = AfterFinally(v, exit)
            /\ valExit' = [valExit EXCEPT ![v] = exit]
            /\ valOk' = [valOk EXCEPT ![v] = ResultAfter(exit, empty).ok]
            /\ valError' = [valError EXCEPT ![v] = ResultAfter(exit, empty).error]
            /\ vpc' = [vpc EXCEPT ![v] = "done"]
    /\ UNCHANGED <<cmdVars, loopVars, modalVars, histVars, envVars, applyVars, extractVars,
                   normVars, preVars, mermaidLoaded, priorHandler, priorCalls,
                   prevParseError, heldAtStart, trappedError, reported, trappedEmpty,
                   clientVars, initVars, clsVars, fixSingleVars>>

HookNext ==
    \/ \E v \in Validations : ValNoMermaid(v)
    \/ \E v \in Validations : ValSync(v)
    \/ \E v \in Validations : ValBegin(v)
    \/ \E v \in Validations : ParserReports(v)
    \/ \E v \in Validations : ValEnd(v)

(***************************************************************************)
(* Claims about the hook.                                                  *)
(***************************************************************************)
\* C13: when a call of validateMermaidAsync with mermaid loaded returns, by
\* whichever exit path, m.parseError holds the value it held when the call
\* started
C13_HookRestored ==
    [][\A v \in Validations :
         (mermaidLoaded /\ vpc[v] # "done" /\ vpc'[v] = "done")
            => parseError' = heldAtStart'[v]]_vars

\* a single call returned after its asynchronous parser rejected, the handler
\* of the host in place again
C13_Witness ==
    /\ mermaidLoaded
    /\ priorHandler = -1
    /\ vpc[1] = "done"
    /\ valExit[1] = "throws"
    /\ \A v \in Validations : v # 1 => vpc[v] = "idle"
    /\ parseError = -1

\* C14 (as claimed): once no validation is under way, m.parseError is the
\* handler that was installed before the first one began: no interceptor of a
\* validation stays installed
C14_NoStaleInterceptor ==
    (\A v \in Validations : vpc[v] # "awaiting") => parseError = priorHandler

\* C21 (as claimed): every result of validateMermaidAsync has an error exactly
\* when ok is false, and that error is a non-empty string, whatever the parser
\* throws or reports
C21_ErrorIffNotOk ==
    \A v \in Validations :
        vpc[v] = "done" =>
            /\ valOk[v] <=> valError[v] = "absent"
            /\ valError[v] # "empty"

\* C36 (as claimed): a validation whose parser went through the hook
\* m.parseError returns ok = false, whatever message the hook was given and
\* also when the call of the parser returned normally
C36_HookReportFails ==
    \A v \in Validations :
        (vpc[v] = "done" /\ reported[v]) => ~valOk[v]


(***************************************************************************)
(* geminiFixSingle, callGeminiSingle and withTimeout.  Calls of different  *)
(* commands can be under way at once; the code of a call runs without      *)
(* interruption between two awaits, and the caller of a call resumes in    *)
(* the turn of the event loop in which the call settles, before a timer or *)
(* a response of the network is handled.                                   *)
(***************************************************************************)
ClientCalls == 1..MaxClientCalls

\* the texts are sequences of characters; geminiFixWithBackoff passes "v1beta"
V1Beta == <<"v", "1", "b", "e", "t", "a">>

\* the tuples the calls are made with: two that differ in the error message;
\* diagram is what inferDiagramType returned, <<>> for null
Tuples ==
    {[apiVersion |-> V1Beta, model |-> <<"m">>, diagram |-> <<"g", "r", "a", "p", "h">>,
      pre |-> <<"p">>, errorMsg |-> e] : e \in {<<>>, <<"e">>}}

NoTuple == [apiVersion |-> <<>>, model |-> <<>>, diagram |-> <<>>, pre |-> <<>>, errorMsg |-> <<>>]

Unknown == <<"u", "n", "k", "n", "o", "w", "n">>

\* the separator of the template of the key
Sep == <<":", ":">>

\* const key = `${apiVersion}::${model}::${diagram ?? "unknown"}::${pre}::${errorMsg || ""}`
KeyOf(t) ==
    t.apiVersion \o Sep \o t.model \o Sep \o (IF t.diagram = <<>> THEN Unknown ELSE t.diagram)
      \o Sep \o t.pre \o Sep \o t.errorMsg

\* fixMemo.get(key): <<>> stands for undefined
MemoGet(k) == IF k \in DOMAIN fixMemo THEN fixMemo[k] ELSE <<>>

\* fixMemo.set(key, value)
MemoSet(k, value) ==
    [x \in DOMAIN fixMemo \cup {k} |-> IF x = k THEN value ELSE fixMemo[x]]

\* a plausible slip: the memo is never taken for a hit
NeverTruthy(value) == FALSE

\* if (memo): a string that is not empty
Truthy(value) == value # <<>>

\* a plausible slip: the timer is left armed when the request settles
NeverClearsTimer == FALSE

\* promise.finally(() => clearTimeout(to!))
ClearsTimer == TRUE

\* the HTTP statuses and the bodies the service answers with: JSON that does
\* not parse, a response without candidate, a candidate with a finishReason
\* other than STOP and MAX_TOKENS, a candidate whose text is empty after
\* extraction, a correction, a text that holds "not found"
Statuses == {200, 400, 401, 404, 429, 500}

Bodies == {"badJson", "noCandidate", "unfinished", "blank", "fix", "notFoundText"}

\* callGeminiSingle from const text = await res.text() on: the kind of the
\* error thrown, "ok" if the raw text is returned
Classify(status, body) ==
    IF ~(status >= 200 /\ status <= 299)
    THEN IF status = 401 \/ status = 403 THEN "auth"
         ELSE IF status = 404 /\ body = "notFoundText" THEN "notfound"
         ELSE IF status = 429 THEN "rate"
         ELSE IF status >= 500 THEN "server"
         ELSE "other"
    ELSE IF body \in {"badJson", "notFoundText"} THEN "parse"
    ELSE IF body = "noCandidate" THEN "nocand"
    ELSE IF body = "unfinished" THEN "incomplete"
    ELSE "ok"

\* sanitizeMermaidOutput(extractFromSentinel(raw)) for the bodies of the model
ResultOf(body) == IF body = "fix" THEN <<"f", "i", "x">> ELSE <<>>

\* the promise of geminiFixSingle settles: the outcome reaches the caller
Deliver(c, t, kind, txt) ==
    /\ cpc' = [cpc EXCEPT ![c] = "done"]
    /\ delivered' = [delivered EXCEPT ![c] = Append(delivered[c], kind)]
    /\ returned' = [returned EXCEPT ![c] = txt]
    /\ firstReturned' = IF kind = "ok" /\ firstReturned[t] = <<>>
                        THEN [firstReturned EXCEPT ![t] = txt]
                        ELSE firstReturned

\* no caller is about to resume with the outcome of its call
NoneDone == \A c \in ClientCalls : cpc[c] # "done"

\* the call and its request are over: the next call starts afresh
Forgotten(c) ==
    /\ cpc' = [cpc EXCEPT ![c] = "idle"]
    /\ cTuple' = [cTuple EXCEPT ![c] = NoTuple]
    /\ cPreChanged' = [cPreChanged EXCEPT ![c] = FALSE]
    /\ requests' = [requests EXCEPT ![c] = 0]
    /\ timer' = [timer EXCEPT ![c] = "none"]
    /\ aborted' = [aborted EXCEPT ![c] = FALSE]
    /\ fetchSt' = [fetchSt EXCEPT ![c] = "none"]
    /\ responded' = [responded EXCEPT ![c] = FALSE]
    /\ delivered' = [delivered EXCEPT ![c] = <<>>]
    /\ returned' = [returned EXCEPT ![c] = <<>>]
    /\ knownAtStart' = [knownAtStart EXCEPT ![c] = <<>>]
    /\ hadEntry' = [hadEntry EXCEPT ![c] = FALSE]

\* no call of geminiFixSingle is modelled with its request and its timer
CallsIdle ==
    /\ timeoutMs = 0
    /\ firstReturned = [t \in Tuples |-> <<>>]
    /\ cpc = [c \in ClientCalls |-> "idle"]
    /\ cTuple = [c \in ClientCalls |-> NoTuple]
    /\ cPreChanged = [c \in ClientCalls |-> FALSE]
    /\ requests = [c \in ClientCalls |-> 0]
    /\ timer = [c \in ClientCalls |-> "none"]
    /\ aborted = [c \in ClientCalls |-> FALSE]
    /\ fetchSt = [c \in ClientCalls |-> "none"]
    /\ responded = [c \in ClientCalls |-> FALSE]
    /\ delivered = [c \in ClientCalls |-> <<>>]
    /\ returned = [c \in ClientCalls |-> <<>>]
    /\ knownAtStart = [c \in ClientCalls |-> <<>>]
    /\ hadEntry = [c \in ClientCalls |-> FALSE]

\* no call of geminiFixSingle has been made
ClientIdle == fixMemo = <<>> /\ CallsIdle

\* the plugin is loaded, the memo empty; the timeout of the settings is 0 or not
ClientInit ==
    /\ timeoutMs \in {0, 1}
    /\ fixMemo = <<>>
    /\ firstReturned = [t \in Tuples |-> <<>>]
    /\ cpc = [c \in ClientCalls |-> "idle"]
    /\ cTuple = [c \in ClientCalls |-> NoTuple]
    /\ cPreChanged = [c \in ClientCalls |-> FALSE]
    /\ requests = [c \in ClientCalls |-> 0]
    /\ timer = [c \in ClientCalls |-> "none"]
    /\ aborted = [c \in ClientCalls |-> FALSE]
    /\ fetchSt = [c \in ClientCalls |-> "none"]
    /\ responded = [c \in ClientCalls |-> FALSE]
    /\ delivered = [c \in ClientCalls |-> <<>>]
    /\ returned = [c \in ClientCalls |-> <<>>]
    /\ knownAtStart = [c \in ClientCalls |-> <<>>]
    /\ hadEntry = [c \in ClientCalls |-> FALSE]

\* geminiFixSingle is called (the free call of the lowest number takes it) and
\* runs to `if (memo) return memo` or to await withTimeout(...), where the
\* request has been issued and the timer set
FixStart(c) ==
    /\ NoneDone
    /\ cpc[c] = "idle"
    /\ \A d \in ClientCalls : d < c => cpc[d] # "idle"
    /\ \E t \in Tuples, changed \in BOOLEAN :
         LET memo == MemoGet(KeyOf(t))
         IN /\ cTuple' = [cTuple EXCEPT ![c] = t]
            /\ cPreChanged' = [cPreChanged EXCEPT ![c] = changed]
            /\ knownAtStart' = [knownAtStart EXCEPT ![c] = firstReturned[t]]
            /\ hadEntry' = [hadEntry EXCEPT ![c] = KeyOf(t) \in DOMAIN fixMemo]
            /\ IF Truthy(memo)
               THEN /\ Deliver(c, t, "ok", memo)
                    /\ UNCHANGED <<requests, fetchSt, timer>>
               ELSE /\ requests' = [requests EXCEPT ![c] = requests[c] + 1]
                    /\ fetchSt' = [fetchSt EXCEPT ![c] = "inflight"]
                    /\ timer' = [timer EXCEPT ![c] = IF timeoutMs <= 0 THEN "none" ELSE "armed"]
                    /\ cpc' = [cpc EXCEPT ![c] = "waiting"]
                    /\ UNCHANGED <<delivered, returned, firstReturned>>
    /\ UNCHANGED <<cmdVars, loopVars, modalVars, histVars, envVars, applyVars, extractVars,
                   normVars, preVars, hookVars, timeoutMs, fixMemo, aborted, responded,
                   initVars, clsVars, fixSingleVars>>

\* fetch resolves: the status line and the headers of the response are there
HeadersArrive(c) ==
    /\ NoneDone
    /\ fetchSt[c] = "inflight"
    /\ ~aborted[c]
    /\ responded' = [responded EXCEPT ![c] = TRUE]
    /\ fetchSt' = [fetchSt EXCEPT ![c] = "headers"]
    /\ UNCHANGED <<cmdVars, loopVars, modalVars, histVars, envVars, applyVars, extractVars,
                   normVars, preVars, hookVars, timeoutMs, fixMemo, firstReturned, cpc,
                   cTuple, cPreChanged, requests, timer, aborted, delivered, returned,
                   knownAtStart, hadEntry, initVars, clsVars, fixSingleVars>>

\* fetch rejects (no connection): callGeminiSingle rejects, the timer is
\* cleared, geminiFixSingle rejects with the error of fetch
FetchFails(c) ==
    /\ NoneDone
    /\ fetchSt[c] = "inflight"
    /\ ~aborted[c]
    /\ fetchSt' = [fetchSt EXCEPT ![c] = "settled"]
    /\ timer' = [timer EXCEPT ![c] = IF timer[c] = "armed" /\ ClearsTimer THEN "cleared" ELSE timer[c]]
    /\ Deliver(c, cTuple[c], "network", <<>>)
    /\ UNCHANGED <<cmdVars, loopVars, modalVars, histVars, envVars, applyVars, extractVars,
                   normVars, preVars, hookVars, timeoutMs, fixMemo, cTuple, cPreChanged,
                   requests, aborted, responded, knownAtStart, hadEntry, initVars, clsVars,
                   fixSingleVars>>

\* res.text() resolves: callGeminiSingle settles, the timer is cleared, and
\* geminiFixSingle runs from await withTimeout(...) to its end
BodyArrives(c) ==
    /\ NoneDone
    /\ fetchSt[c] = "headers"
    /\ ~aborted[c]
    /\ fetchSt' = [fetchSt EXCEPT ![c] = "settled"]
    /\ timer' = [timer EXCEPT ![c] = IF timer[c] = "armed" /\ ClearsTimer THEN "cleared" ELSE timer[c]]
    /\ \E status \in Statuses, body \in Bodies :
         LET kind == Classify(status, body)
             t == cTuple[c]
             result == ResultOf(body)
         IN IF kind # "ok"
            THEN /\ Deliver(c, t, kind, <<>>)
                 /\ UNCHANGED fixMemo
            ELSE IF result = <<>>
            THEN IF t.pre # <<>> /\ cPreChanged[c]
                 THEN /\ fixMemo' = MemoSet(KeyOf(t), t.pre)
                      /\ Deliver(c, t, "ok", t.pre)
                 ELSE /\ Deliver(c, t, "empty", <<>>)
                      /\ UNCHANGED fixMemo
            ELSE /\ fixMemo' = MemoSet(KeyOf(t), result)
                 /\ Deliver(c, t, "ok", result)
    /\ UNCHANGED <<cmdVars, loopVars, modalVars, histVars, envVars, applyVars, extractVars,
                   normVars, preVars, hookVars, timeoutMs, cTuple, cPreChanged, requests,
                   aborted, responded, knownAtStart, hadEntry, initVars, clsVars,
                   fixSingleVars>>

\* the timer of withTimeout fires: controller.abort(), then the promise of
\* the timeout rejects; Promise.race passes the first settlement on
TimerFires(c) ==
    /\ NoneDone
    /\ timer[c] = "armed"
    /\ timer' = [timer EXCEPT ![c] = "fired"]
    /\ aborted' = [aborted EXCEPT ![c] = TRUE]
    /\ IF cpc[c] = "waiting"
       THEN Deliver(c, cTuple[c], "timeout", <<>>)
       ELSE UNCHANGED <<cpc, delivered, returned, firstReturned>>
    /\ UNCHANGED <<cmdVars, loopVars, modalVars, histVars, envVars, applyVars, extractVars,
                   normVars, preVars, hookVars, timeoutMs, fixMemo, cTuple, cPreChanged,
                   requests, fetchSt, responded, knownAtStart, hadEntry, initVars, clsVars,
                   fixSingleVars>>

\* the caller resumes with the outcome of the call; the call is over, unless
\* its aborted request has not settled or its timer is still set
FixTaken(c) ==
    /\ cpc[c] = "done"
    /\ IF fetchSt[c] \in {"none", "settled"} /\ timer[c] # "armed"
       THEN Forgotten(c)
       ELSE /\ cpc' = [cpc EXCEPT ![c] = "taken"]
            /\ UNCHANGED <<cTuple, cPreChanged, requests, timer, aborted, fetchSt,
                           responded, delivered, returned, knownAtStart, hadEntry>>
    /\ UNCHANGED <<cmdVars, loopVars, modalVars, histVars, envVars, applyVars, extractVars,
                   normVars, preVars, hookVars, timeoutMs, fixMemo, firstReturned, initVars,
                   clsVars, fixSingleVars>>

\* the aborted request settles: fetch (or res.text(), whose failure is caught)
\* rejects, callGeminiSingle throws, Promise.race has settled before
AbortedFetchSettles(c) ==
    /\ NoneDone
    /\ aborted[c]
    /\ fetchSt[c] \in {"inflight", "headers"}
    /\ Forgotten(c)
    /\ UNCHANGED <<cmdVars, loopVars, modalVars, histVars, envVars, applyVars, extractVars,
                   normVars, preVars, hookVars, timeoutMs, fixMemo, firstReturned, initVars,
                   clsVars, fixSingleVars>>

ClientNext ==
    \/ \E c \in ClientCalls : FixStart(c)
    \/ \E c \in ClientCalls : HeadersArrive(c)
    \/ \E c \in ClientCalls : FetchFails(c)
    \/ \E c \in ClientCalls : BodyArrives(c)
    \/ \E c \in ClientCalls : TimerFires(c)
    \/ \E c \in ClientCalls : AbortedFetchSettles(c)
    \/ \E c \in ClientCalls : FixTaken(c)

(***************************************************************************)
(* Claims about the correction client.                                     *)
(***************************************************************************)
\* the call has ended with the outcome kind
EndedAs(c, kind) == cpc[c] \in {"done", "taken"} /\ delivered[c] = <<kind>>

\* C12 (as claimed): a call that starts after a call with the same tuple has
\* returned a text returns that very text and issues no network request
C12_MemoDeterministic ==
    \A c \in ClientCalls :
        (cpc[c] = "done" /\ knownAtStart[c] # <<>>)
           => (EndedAs(c, "ok") /\ returned[c] = knownAtStart[c] /\ requests[c] = 0)

\* C18: for a call with a timeout above 0, the request is aborted only by the
\* timer, and then the call fails with the timeout error; when the response
\* (or the failure of the request) comes first the timer is cleared and the
\* request is never aborted; and one outcome, never two, reaches the caller
C18_TimeoutOrResponse ==
    \A c \in ClientCalls :
        /\ aborted[c] <=> timer[c] = "fired"
        /\ timer[c] = "fired" => EndedAs(c, "timeout")
        /\ EndedAs(c, "timeout") => timer[c] = "fired"
        /\ (timeoutMs > 0 /\ cpc[c] \in {"done", "taken"} /\ requests[c] > 0
              /\ ~EndedAs(c, "timeout"))
              => (timer[c] = "cleared" /\ ~aborted[c] /\ fetchSt[c] = "settled")
        /\ Len(delivered[c]) <= 1
        /\ cpc[c] \in {"done", "taken"} <=> Len(delivered[c]) = 1
        /\ timer[c] = "armed" => (cpc[c] = "waiting" /\ fetchSt[c] \in {"inflight", "headers"})

\* the timer fired after the headers of the response had come: the request was
\* aborted and the call failed with the timeout error
C18_Witness ==
    /\ timeoutMs > 0
    /\ EndedAs(1, "timeout")
    /\ aborted[1]
    /\ responded[1]
    /\ fetchSt[1] = "headers"

\* C19: a call issues at most one network request, none when the memo has an
\* entry for its key and exactly one otherwise, and a request is issued only
\* when the call starts, never after a failure
C19_AtMostOneRequest ==
    /\ [](\A c \in ClientCalls :
            /\ requests[c] <= 1
            /\ cpc[c] # "idle" => requests[c] = (IF hadEntry[c] THEN 0 ELSE 1))
    /\ [][\A c \in ClientCalls : requests'[c] > requests[c] => cpc[c] = "idle"]_vars

\* a call failed with a server error after its one request, the memo empty
C19_Witness ==
    /\ EndedAs(1, "server")
    /\ requests[1] = 1
    /\ ~hadEntry[1]
    /\ fixMemo = <<>>

\* the nine terminal outcomes of the state machine of a correction call
ClaimedOutcomes ==
    {"ok", "auth", "notfound", "rate", "server", "nocand", "incomplete", "timeout", "parse"}

\* C20 (as claimed): every call that reached the service ends in one of the
\* outcomes Succeeded, AuthError, NotFound, RateLimited, ServerError,
\* NoCandidate, Incomplete, Timeout, ParseError
C20_OutcomeInClaimedSet ==
    \A c \in ClientCalls :
        (cpc[c] = "done" /\ responded[c]) => delivered[c][1] \in ClaimedOutcomes


(***************************************************************************)
(* preserveInitIfNeeded, character by character.                           *)
(***************************************************************************)
\* the word w stands at offset i of s
HasAt(s, i, w) ==
    /\ i >= 0
    /\ i + Len(w) <= Len(s)
    /\ \A k \in 1..Len(w) : s[i + k] = w[k]

\* original.split(/\r?\n/) from offset i on, the line that is being read
\* starting at offset from
RECURSIVE SplitCrLf(_, _, _)
SplitCrLf(s, from, i) ==
    IF i >= Len(s) THEN <<SubSeq(s, from + 1, Len(s))>>
    ELSE IF At(s, i) = "\n" THEN <<SubSeq(s, from + 1, i)>> \o SplitCrLf(s, i + 1, i + 1)
    ELSE IF HasAt(s, i, <<"\r", "\n">>)
         THEN <<SubSeq(s, from + 1, i)>> \o SplitCrLf(s, i + 2, i + 2)
    ELSE SplitCrLf(s, from, i + 1)

\* /init\s*:/.test(l)
HasInitColon(l) ==
    \E k \in 0..Len(l) :
        /\ HasAt(l, k, <<"i", "n", "i", "t">>)
        /\ SkipSpace(l, k + 4) < Len(l)
        /\ At(l, SkipSpace(l, k + 4)) = ":"

\* the test of origLines.find: l.trim().startsWith("%%{") && /init\s*:/.test(l)
IsInitLine(l) == HasAt(Trim(l), 0, <<"%", "%", "{">>) /\ HasInitColon(l)

\* origLines.find(...): the first line that passes the test, <<>> (undefined)
\* if there is none
RECURSIVE FindInitLine(_)
FindInitLine(lines) ==
    IF lines = <<>> THEN <<>>
    ELSE IF IsInitLine(Head(lines)) THEN Head(lines)
    ELSE FindInitLine(Tail(lines))

\* no "}" stands in s from offset a up to offset b
NoCloseBrace(s, a, b) == \A k \in a..(b - 1) : At(s, k) # "}"

\* /%%\{[^}]*init[^}]*\}%%/.test(fixed)
HasInit(fixed) ==
    \E k \in 0..Len(fixed), i \in 0..Len(fixed), j \in 0..Len(fixed) :
        /\ HasAt(fixed, k, <<"%", "%", "{">>)
        /\ i >= k + 3
        /\ NoCloseBrace(fixed, k + 3, i)
        /\ HasAt(fixed, i, <<"i", "n", "i", "t">>)
        /\ j >= i + 4
        /\ NoCloseBrace(fixed, i + 4, j)
        /\ HasAt(fixed, j, <<"}", "%", "%">>)

\* preserveInitIfNeeded(original, fixed, enabled)
preserveInitIfNeeded(original, fixed, enabled) ==
    LET origInitLine == FindInitLine(SplitCrLf(original, 0, 0))
    IN IF ~enabled THEN fixed
       ELSE IF origInitLine = <<>> THEN fixed
       ELSE IF HasInit(fixed) THEN fixed
       ELSE Trim(origInitLine) \o <<"\n">> \o fixed

(***************************************************************************)
(* preserveInitIfNeeded runs on a block and a corrected text, and then on  *)
(* the block and its own result.                                           *)
(***************************************************************************)
\* a directive without braces inside, %%{init:}%%, and one with an object as
\* value, %%{init:{}}%%
FlatDirective == <<"%", "%", "{", "i", "n", "i", "t", ":", "}", "%", "%">>

ObjectDirective == <<"%", "%", "{", "i", "n", "i", "t", ":", "{", "}", "}", "%", "%">>

\* the pieces the original blocks and the corrected texts are put together from
OrigPieces == <<FlatDirective, ObjectDirective, <<" ">>, <<"\n">>, <<"x">> >>

FixedPieces == <<FlatDirective, ObjectDirective, <<"\n">>, <<"x">> >>

\* the pieces p[f[1]], ..., p[f[k]] one after another
RECURSIVE InitConcat(_, _, _)
InitConcat(p, f, k) == IF k = 0 THEN <<>> ELSE InitConcat(p, f, k - 1) \o p[f[k]]

\* preserveInitIfNeeded does not run
InitDirIdle ==
    /\ initOriginal = <<>>
    /\ initFixed = <<>>
    /\ initEnabled = FALSE
    /\ initOnce = <<>>
    /\ initTwice = <<>>
    /\ initPc = "idle"

\* a correction call has returned the text fixed for the block original
InitDirInit ==
    /\ \E k \in 0..MaxOrigPieces :
         \E f \in [1..k -> 1..Len(OrigPieces)] : initOriginal = InitConcat(OrigPieces, f, k)
    /\ \E k \in 0..MaxFixedPieces :
         \E f \in [1..k -> 1..Len(FixedPieces)] : initFixed = InitConcat(FixedPieces, f, k)
    /\ initEnabled \in BOOLEAN
    /\ initOnce = <<>>
    /\ initTwice = <<>>
    /\ initPc = "input"

\* const codeToValidate = preserveInitIfNeeded(block.code, proposedFix, ...)
Preserve ==
    /\ initPc = "input"
    /\ initOnce' = preserveInitIfNeeded(initOriginal, initFixed, initEnabled)
    /\ initPc' = "once"
    /\ UNCHANGED <<cmdVars, loopVars, modalVars, histVars, envVars, applyVars, extractVars,
                   normVars, preVars, hookVars, clientVars, initOriginal, initFixed,
                   initEnabled, initTwice, clsVars, fixSingleVars>>

\* the function is applied to the block and its own result
PreserveAgain ==
    /\ initPc = "once"
    /\ initTwice' = preserveInitIfNeeded(initOriginal, initOnce, initEnabled)
    /\ initPc' = "twice"
    /\ UNCHANGED <<cmdVars, loopVars, modalVars, histVars, envVars, applyVars, extractVars,
                   normVars, preVars, hookVars, clientVars, initOriginal, initFixed,
                   initEnabled, initOnce, clsVars, fixSingleVars>>

InitDirNext ==
    \/ Preserve
    \/ PreserveAgain

(***************************************************************************)
(* Claims about preserveInitIfNeeded.                                      *)
(***************************************************************************)
\* some line of the text is a directive line by the test that the function
\* applies to the lines of the original block
HasInitLine(s) == FindInitLine(SplitCrLf(s, 0, 0)) # <<>>

\* C15 (as claimed): with preservation enabled, a directive line in the
\* original block and none in the corrected text, the result is the directive
\* line as it stands in the original block, leading and trailing white space
\* included, then a newline, then the corrected text
C15_DirectiveVerbatim ==
    (initPc # "input" /\ initEnabled /\ HasInitLine(initOriginal)
       /\ ~HasInitLine(initFixed) /\ ~HasInit(initFixed))
      => initOnce = FindInitLine(SplitCrLf(initOriginal, 0, 0)) \o <<"\n">> \o initFixed

\* C16 (as claimed): a corrected text that holds a directive line is returned
\* unchanged, and applying the function to its own result changes nothing
C16_DirectiveKept ==
    /\ (initPc # "input" /\ HasInitLine(initFixed)) => initOnce = initFixed
    /\ initPc = "twice" => initTwice = initOnce


(***************************************************************************)
(* callGeminiSingle from `const text = await res.text()` on, on the status *)
(* and the body of a response.                                             *)
(***************************************************************************)
\* p.text of a part that has no text
NoText == "undefined"

\* the bodies: the empty text (also what a failing res.text() is caught to), a
\* text that is not JSON, and JSON documents with or without a first
\* candidate; notFound: the text holds "not found" in some case of letters;
\* finishReason "" stands for a candidate without finishReason, blockReason ""
\* for a promptFeedback without blockReason
ResBodies ==
    {[form |-> "empty", notFound |-> FALSE, candidate |-> FALSE, finishReason |-> "",
      parts |-> <<>>, blockReason |-> "", ratings |-> <<>>]}
    \cup
    {[form |-> "text", notFound |-> nf, candidate |-> FALSE, finishReason |-> "",
      parts |-> <<>>, blockReason |-> "", ratings |-> <<>>] : nf \in BOOLEAN}
    \cup
    {[form |-> "json", notFound |-> nf, candidate |-> FALSE, finishReason |-> "",
      parts |-> <<>>, blockReason |-> br, ratings |-> rt] :
        nf \in BOOLEAN, br \in {"", "SAFETY"}, rt \in {<<>>, <<"HARM:HIGH">>}}
    \cup
    {[form |-> "json", notFound |-> nf, candidate |-> TRUE, finishReason |-> fr,
      parts |-> ps, blockReason |-> "", ratings |-> <<>>] :
        nf \in BOOLEAN, fr \in {"", "STOP", "MAX_TOKENS", "SAFETY"},
        ps \in {<<>>, <<"a">>, <<"a", "b">>, <<NoText, "b">>}}

ResStatuses == {200, 400, 401, 403, 404, 429, 500, 503}

NoBody ==
    [form |-> "none", notFound |-> FALSE, candidate |-> FALSE, finishReason |-> "",
     parts |-> <<>>, blockReason |-> "", ratings |-> <<>>]

NoResult == [kind |-> "none", out |-> <<>>, reason |-> "", ratings |-> <<>>]

\* res.ok
ResOk(status) == status >= 200 /\ status <= 299

\* (candidate?.content?.parts ?? []).map((p) => p?.text ?? "").join("")
RECURSIVE JoinParts(_)
JoinParts(ps) ==
    IF ps = <<>> THEN <<>>
    ELSE (IF Head(ps) = NoText THEN <<>> ELSE <<Head(ps)>>) \o JoinParts(Tail(ps))

\* throw new Error(...) of the kind given
Thrown(kind) == [kind |-> kind, out |-> <<>>, reason |-> "", ratings |-> <<>>]

\* feedback?.blockReason ?? "候補が返されませんでした"
ReasonOf(body) == IF body.blockReason = "" THEN "default" ELSE body.blockReason

\* /not found/i.test(text)
NotFoundTest(body) == body.notFound

\* lines 246-283
callGeminiSingle(status, body) ==
    IF ~ResOk(status)
    THEN IF status = 401 \/ status = 403 THEN Thrown("auth")
         ELSE IF status = 404 /\ NotFoundTest(body) THEN Thrown("notfound")
         ELSE IF status = 429 THEN Thrown("rate")
         ELSE IF status >= 500 THEN Thrown("server")
         ELSE Thrown("other")
    \* data = text ? JSON.parse(text) : {}
    ELSE IF body.form = "text" THEN Thrown("parse")
    ELSE IF ~body.candidate
    THEN [kind |-> "nocand", out |-> <<>>, reason |-> ReasonOf(body), ratings |-> body.ratings]
    ELSE IF body.finishReason # "" /\ body.finishReason # "STOP" /\ body.finishReason # "MAX_TOKENS"
    THEN Thrown("incomplete")
    ELSE [kind |-> "ok", out |-> JoinParts(body.parts), reason |-> "", ratings |-> <<>>]

\* callGeminiSingle does not run
ClsIdle ==
    /\ resStatus = 0
    /\ resBody = NoBody
    /\ clsResult = NoResult
    /\ clsPc = "idle"

\* fetch has resolved with a response
ClsInit ==
    /\ resStatus \in ResStatuses
    /\ resBody \in ResBodies
    /\ clsResult = NoResult
    /\ clsPc = "input"

\* the body is read and callGeminiSingle runs to its end
ClassifyResponse ==
    /\ clsPc = "input"
    /\ clsResult' = callGeminiSingle(resStatus, resBody)
    /\ clsPc' = "done"
    /\ UNCHANGED <<cmdVars, loopVars, modalVars, histVars, envVars, applyVars, extractVars,
                   normVars, preVars, hookVars, clientVars, initVars, resStatus, resBody,
                   fixSingleVars>>

ClsNext == ClassifyResponse

(***************************************************************************)
(* Claims about callGeminiSingle.                                          *)
(***************************************************************************)
\* the table of the claim, read from its first row down
ClaimedRow(status, body) ==
    IF status = 401 \/ status = 403 THEN "auth"
    ELSE IF status = 404 /\ body.notFound THEN "notfound"
    ELSE IF status = 429 THEN "rate"
    ELSE IF status >= 500 THEN "server"
    ELSE IF ResOk(status) /\ body.form # "json" THEN "parse"
    ELSE IF ~body.candidate THEN "nocand"
    ELSE IF body.finishReason \notin {"", "STOP", "MAX_TOKENS"} THEN "incomplete"
    ELSE "ok"

\* C32 (as claimed): callGeminiSingle ends as the row of the table that
\* applies to the response says; the no-candidate error carries the block
\* reason and the safety ratings, and the text returned is the part texts
\* one after another
C32_ClassifiedByTable ==
    clsPc = "done" =>
        /\ clsResult.kind = ClaimedRow(resStatus, resBody)
        /\ clsResult.kind = "nocand" =>
               (clsResult.reason = ReasonOf(resBody) /\ clsResult.ratings = resBody.ratings)
        /\ clsResult.kind = "ok" => clsResult.out = JoinParts(resBody.parts)


(***************************************************************************)
(* geminiFixSingle with the texts it works on, character by character:     *)
(* inferDiagramType, buildGeminiPromptV2, extractFromSentinel,             *)
(* stripCodeFences, sanitizeMermaidOutput.                                 *)
(***************************************************************************)
\* the class \w
WordChars ==
    {"a", "b", "c", "d", "e", "f", "g", "h", "i", "j", "k", "l", "m", "n", "o", "p", "q",
     "r", "s", "t", "u", "v", "w", "x", "y", "z", "A", "B", "C", "D", "E", "F", "G", "H",
     "I", "J", "K", "L", "M", "N", "O", "P", "Q", "R", "S", "T", "U", "V", "W", "X", "Y",
     "Z", "0", "1", "2", "3", "4", "5", "6", "7", "8", "9", "_"}

\* String.prototype.toLowerCase
toLowerCase(s) == [k \in 1..Len(s) |-> Lower(s[k])]

\* String.prototype.includes
Includes(s, w) == \E k \in 0..(Len(s) - Len(w)) : HasAt(s, k, w)

\* /w/i.test(s) for a word w in lower case
IncludesI(s, w) == Includes(toLowerCase(s), w)

\* /^w\b/i.test(t) for a word w in lower case
StartsWithWordI(t, w) ==
    /\ HasAt(toLowerCase(t), 0, w)
    /\ (Len(t) = Len(w) \/ At(t, Len(w)) \notin WordChars)

\* inferDiagramType(code): <<>> stands for null
inferDiagramType(code) ==
    LET t == Trim(code)
    IN IF StartsWithWordI(t, <<"s", "e", "q", "u", "e", "n", "c", "e", "d", "i", "a", "g", "r", "a", "m">>) THEN <<"s", "e", "q", "u", "e", "n", "c", "e", "D", "i", "a", "g", "r", "a", "m">>
       ELSE IF StartsWithWordI(t, <<"c", "l", "a", "s", "s", "d", "i", "a", "g", "r", "a", "m">>) THEN <<"c", "l", "a", "s", "s", "D", "i", "a", "g", "r", "a", "m">>
       ELSE IF StartsWithWordI(t, <<"e", "r", "d", "i", "a", "g", "r", "a", "m">>) THEN <<"e", "r", "D", "i", "a", "g", "r", "a", "m">>
       ELSE IF \/ StartsWithWordI(t, <<"s", "t", "a", "t", "e", "d", "i", "a", "g", "r", "a", "m">>)
               \/ StartsWithWordI(t, <<"s", "t", "a", "t", "e", "d", "i", "a", "g", "r", "a", "m", "-", "v", "2">>) THEN <<"s", "t", "a", "t", "e", "D", "i", "a", "g", "r", "a", "m">>
       ELSE IF StartsWithWordI(t, <<"g", "a", "n", "t", "t">>) THEN <<"g", "a", "n", "t", "t">>
       ELSE IF StartsWithWordI(t, <<"j", "o", "u", "r", "n", "e", "y">>) THEN <<"j", "o", "u", "r", "n", "e", "y">>
       ELSE IF StartsWithWordI(t, <<"p", "i", "e">>) THEN <<"p", "i", "e">>
       ELSE IF StartsWithWordI(t, <<"m", "i", "n", "d", "m", "a", "p">>) THEN <<"m", "i", "n", "d", "m", "a", "p">>
       ELSE IF StartsWithWordI(t, <<"t", "i", "m", "e", "l", "i", "n", "e">>) THEN <<"t", "i", "m", "e", "l", "i", "n", "e">>
       ELSE IF StartsWithWordI(t, <<"f", "l", "o", "w", "c", "h", "a", "r", "t">>) \/ StartsWithWordI(t, <<"g", "r", "a", "p", "h">>)
       THEN <<"g", "r", "a", "p", "h">>
       ELSE <<>>

\* /<br\s*\/?>/i.test(s)
HasBrTag(s) == \E k \in 0..(Len(s) - 1) : MatchBr(s, k) >= 0

\* /w\s+/i.test(s): the word w and at least one white space after it
WordThenSpaceI(s, w) ==
    \E k \in 0..(Len(s) - Len(w) - 1) :
        HasAt(toLowerCase(s), k, w) /\ IsSpace(At(s, k + Len(w)))

\* /class\s+[^\n]+/i.test(s): after the word white space, then a character
\* that is no newline
ClassThenNameI(s) ==
    \E k \in 0..(Len(s) - 5), j \in 1..Len(s) :
        /\ HasAt(toLowerCase(s), k, <<"c", "l", "a", "s", "s">>)
        /\ k + 5 + j < Len(s)
        /\ \A i \in 0..(j - 1) : IsSpace(At(s, k + 5 + i))
        /\ At(s, k + 5 + j) # "\n"

\* the conditional rules of dynamicFixes that buildGeminiPromptV2(original,
\* errorMsg) puts into the prompt (lines 55-111)
DynamicRules(original, errorMsg) ==
    LET lowerErr == toLowerCase(errorMsg)
    IN {r \in {"html", "lexical", "parse", "diagramType", "subgraph", "classDef", "click",
               "sequenceDiagram", "classDiagram", "erDiagram", "gantt"} :
          CASE r = "html" -> HasBrTag(original) \/ Includes(lowerErr, <<"h", "t", "m", "l">>)
            [] r = "lexical" -> \/ Includes(lowerErr, <<"l", "e", "x", "i", "c", "a", "l", " ", "e", "r", "r", "o", "r">>)
                                \/ Includes(lowerErr, <<"u", "n", "r", "e", "c", "o", "g", "n", "i", "z", "e", "d">>)
            [] r = "parse" -> \/ Includes(lowerErr, <<"p", "a", "r", "s", "e", " ", "e", "r", "r", "o", "r">>)
                              \/ Includes(lowerErr, <<"e", "x", "p", "e", "c", "t", "i", "n", "g">>)
            [] r = "diagramType" -> \/ Includes(lowerErr, <<"u", "n", "k", "n", "o", "w", "n", " ", "d", "i", "a", "g", "r", "a", "m", " ", "t", "y", "p", "e">>)
                                    \/ Includes(lowerErr, <<"c", "o", "u", "l", "d", " ", "n", "o", "t", " ", "f", "i", "n", "d", " ", "d", "i", "a", "g", "r", "a", "m", " ", "t", "y", "p", "e">>)
            [] r = "subgraph" -> IncludesI(original, <<"s", "u", "b", "g", "r", "a", "p", "h">>)
            [] r = "classDef" -> IncludesI(original, <<"c", "l", "a", "s", "s", "d", "e", "f">>) \/ ClassThenNameI(original)
            [] r = "click" -> WordThenSpaceI(original, <<"c", "l", "i", "c", "k">>)
            [] r = "sequenceDiagram" -> IncludesI(original, <<"s", "e", "q", "u", "e", "n", "c", "e", "d", "i", "a", "g", "r", "a", "m">>)
            [] r = "classDiagram" -> IncludesI(original, <<"c", "l", "a", "s", "s", "d", "i", "a", "g", "r", "a", "m">>)
            [] r = "erDiagram" -> IncludesI(original, <<"e", "r", "d", "i", "a", "g", "r", "a", "m">>)
            [] r = "gantt" -> IncludesI(original, <<"g", "a", "n", "t", "t">>)}

\* buildGeminiPromptV2(original, errorMsg, opts): the parts of the prompt that
\* depend on the arguments
buildGeminiPromptV2(original, errorMsg) ==
    [rules |-> DynamicRules(original, errorMsg), error |-> errorMsg, code |-> original]

NoPrompt == [rules |-> {}, error |-> <<>>, code |-> <<>>]

Fence == <<Backtick, Backtick, Backtick>>

\* \w* from i: the offset after the word characters
RECURSIVE SkipWord(_, _)
SkipWord(s, i) ==
    IF i < Len(s) /\ At(s, i) \in WordChars THEN SkipWord(s, i + 1) ELSE i

\* text.replace(/^```\w*\n?/, '')
StripOpenFence(s) ==
    IF ~HasAt(s, 0, Fence) THEN s
    ELSE LET w == SkipWord(s, 3)
             e == IF w < Len(s) /\ At(s, w) = "\n" THEN w + 1 ELSE w
         IN SubSeq(s, e + 1, Len(s))

\* .replace(/\n?```$/, '')
StripCloseFence(s) ==
    IF ~HasAt(s, Len(s) - 3, Fence) THEN s
    ELSE LET b == Len(s) - 3
         IN IF b > 0 /\ At(s, b - 1) = "\n" THEN SubSeq(s, 1, b - 1) ELSE SubSeq(s, 1, b)

\* stripCodeFences(text)
stripCodeFences(s) == Trim(StripCloseFence(StripOpenFence(s)))

BeginMarker == <<"B", "E", "G", "I", "N", "_", "M", "E", "R", "M", "A", "I", "D">>

EndMarker == <<"E", "N", "D", "_", "M", "E", "R", "M", "A", "I", "D">>

\* the offset of the first "\nEND_MERMAID" at or after i, -1 if there is none
RECURSIVE FindEnd(_, _)
FindEnd(s, i) ==
    IF i >= Len(s) THEN -1
    ELSE IF HasAt(s, i, <<"\n">> \o EndMarker) THEN i ELSE FindEnd(s, i + 1)

\* \s*\n([\s\S]*?)\nEND_MERMAID from offset a on, where the white space of
\* \s* ends at offset z: the regex gives back white space from z - a down to
\* none until a newline follows it and the end marker is found; the offsets
\* <<from, to>> of the capture, <<>> if there is no match
RECURSIVE CaptureFrom(_, _, _)
CaptureFrom(s, a, z) ==
    IF z < a THEN <<>>
    ELSE IF z < Len(s) /\ At(s, z) = "\n" /\ FindEnd(s, z + 1) >= 0
    THEN <<z + 1, FindEnd(s, z + 1)>>
    ELSE CaptureFrom(s, a, z - 1)

\* output.match(/BEGIN_MERMAID\s*\n([\s\S]*?)\nEND_MERMAID/) from offset i on:
\* the capture of the leftmost match, <<>> for null
RECURSIVE MatchSentinel(_, _)
MatchSentinel(s, i) ==
    IF i + Len(BeginMarker) > Len(s) THEN <<>>
    ELSE LET a == i + Len(BeginMarker)
             m == IF HasAt(s, i, BeginMarker) THEN CaptureFrom(s, a, SkipSpace(s, a)) ELSE <<>>
         IN IF m # <<>> THEN m ELSE MatchSentinel(s, i + 1)

\* extractFromSentinel(output)
extractFromSentinel(output) ==
    LET m == MatchSentinel(output, 0)
    IN IF m # <<>> THEN Trim(SubSeq(output, m[1] + 1, m[2])) ELSE Trim(output)

\* sanitizeMermaidOutput(out)
sanitizeMermaidOutput(out) == normalizeSurface(Trim(stripCodeFences(out)))

\* a plausible slip: the normalized text is returned whenever it differs
FallbackOnAnyChange(pre, original) == pre # original

\* if (pre && pre !== original)
FallbackOk(pre, original) == pre # <<>> /\ pre # original

(***************************************************************************)
(* A call of geminiFixSingle, from its start to await withTimeout(...) and *)
(* from there to its end.                                                  *)
(***************************************************************************)
\* this.settings.geminiModel
GeminiModel == <<"m">>

\* the tuple of a call with the block original and the message errorMsg
TupleOf(original, errorMsg) ==
    [apiVersion |-> V1Beta, model |-> GeminiModel, diagram |-> inferDiagramType(original),
     pre |-> preNormalizeMermaid(original), errorMsg |-> errorMsg]

\* the pieces p[f[1]], ..., p[f[k]] one after another
RECURSIVE PiecesConcat(_, _, _)
PiecesConcat(p, f, k) == IF k = 0 THEN <<>> ELSE PiecesConcat(p, f, k - 1) \o p[f[k]]

\* the texts of at most n pieces of p
TextsOf(p, n) ==
    UNION {{PiecesConcat(p, f, k) : f \in [1..k -> 1..Len(p)]} : k \in 0..n}

\* the pieces of the blocks: a letter, a zero-width character, a label with a
\* break tag, a label with a colon, the separator of the key and a letter, a
\* diagram word
CodePieces ==
    << <<"x">>, <<ZeroWidth>>, <<"[", "<", "b", "r", ">", "]">>, <<"[", ":", "]">>,
       <<":", ":", "e">>, <<"g", "a", "n", "t", "t">> >>

\* the error messages
ErrTexts == {<<>>, <<"e">>, <<"e", ":", ":", "e">>, <<"H", "T", "M", "L">>}

\* the pieces of the responses: the markers with and without their newlines,
\* a line of code, a fence, white space, a zero-width character
RawPieces ==
    << BeginMarker \o <<"\n">>, BeginMarker \o <<"\n", "x">>, <<"\n">> \o EndMarker,
       EndMarker, <<"x">>, <<"\n">>, Fence, <<" ">>, <<ZeroWidth>> >>

\* the calls that ended before this one and stored their result
EarlierCalls ==
    {TupleOf(o, e) : o \in {<<"x">>, <<"x", ":", ":", "e">>},
                     e \in {<<"e">>, <<"e", ":", ":", "e">>}}

\* the text an earlier call returned
EarlierText == <<"o", "l", "d">>

NoOutcome == [kind |-> "none", text |-> <<>>]

\* geminiFixSingle does not run
FixSingleIdle ==
    /\ gOriginal = <<>>
    /\ gErrorMsg = <<>>
    /\ gMemoFrom = NoTuple
    /\ gPc = "idle"
    /\ gPre = <<>>
    /\ gKey = <<>>
    /\ gPrompt = NoPrompt
    /\ gHit = FALSE
    /\ gRaw = <<>>
    /\ gOut = NoOutcome

\* geminiFixSingle is called with a block and an error message; the memo is
\* empty or holds what an earlier call stored
FixSingleInit ==
    /\ gOriginal \in TextsOf(CodePieces, MaxCodePieces)
    /\ gErrorMsg \in ErrTexts
    /\ \/ fixMemo = <<>> /\ gMemoFrom = NoTuple
       \/ \E t \in EarlierCalls :
            /\ fixMemo = [k \in {KeyOf(t)} |-> EarlierText]
            /\ gMemoFrom = t
    /\ gPc = "input"
    /\ gPre = <<>>
    /\ gKey = <<>>
    /\ gPrompt = NoPrompt
    /\ gHit = FALSE
    /\ gRaw = <<>>
    /\ gOut = NoOutcome

\* lines 297-326: the key, the memo, the prompt, the request
FixHead ==
    /\ gPc = "input"
    /\ LET t == TupleOf(gOriginal, gErrorMsg)
           memo == MemoGet(KeyOf(t))
       IN /\ gPre' = t.pre
          /\ gKey' = KeyOf(t)
          /\ IF Truthy(memo)
             THEN /\ gHit' = TRUE
                  /\ gOut' = [kind |-> "ok", text |-> memo]
                  /\ gPc' = "done"
                  /\ UNCHANGED gPrompt
             ELSE /\ gPrompt' = buildGeminiPromptV2(t.pre, gErrorMsg)
                  /\ gPc' = "asked"
                  /\ UNCHANGED <<gHit, gOut>>
    /\ UNCHANGED <<cmdVars, loopVars, modalVars, histVars, envVars, applyVars, extractVars,
                   normVars, preVars, hookVars, clientVars, initVars, clsVars, gOriginal,
                   gErrorMsg, gMemoFrom, gRaw>>

\* lines 322-342: callGeminiSingle (or the timer of withTimeout) throws, or it
\* returns the text raw: extraction, sanitizing, the fallback, the memo
FixTail ==
    /\ gPc = "asked"
    /\ gPc' = "done"
    /\ \/ /\ gOut' = [kind |-> "failed", text |-> <<>>]
          /\ UNCHANGED <<gRaw, fixMemo>>
       \/ \E raw \in TextsOf(RawPieces, MaxRawPieces) :
            LET result == sanitizeMermaidOutput(extractFromSentinel(raw))
            IN /\ gRaw' = raw
               /\ IF result = <<>>
                  THEN IF FallbackOk(gPre, gOriginal)
                       THEN /\ fixMemo' = MemoSet(gKey, gPre)
                            /\ gOut' = [kind |-> "ok", text |-> gPre]
                       ELSE /\ gOut' = [kind |-> "empty", text |-> <<>>]
                            /\ UNCHANGED fixMemo
                  ELSE /\ fixMemo' = MemoSet(gKey, result)
                       /\ gOut' = [kind |-> "ok", text |-> result]
    /\ UNCHANGED <<cmdVars, loopVars, modalVars, histVars, envVars, applyVars, extractVars,
                   normVars, preVars, hookVars, timeoutMs, firstReturned, cpc, cTuple,
                   cPreChanged, requests, timer, aborted, fetchSt, responded, delivered,
                   returned, knownAtStart, hadEntry, initVars, clsVars, gOriginal,
                   gErrorMsg, gMemoFrom, gPre, gKey, gPrompt, gHit>>

FixSingleNext ==
    \/ FixHead
    \/ FixTail

(***************************************************************************)
(* Claims about geminiFixSingle.                                           *)
(***************************************************************************)
\* the call got the text raw and nothing was left of it after extraction and
\* sanitizing
EmptyResultStep ==
    /\ gPc = "asked" /\ gPc' = "done" /\ gOut'.kind # "failed"
    /\ sanitizeMermaidOutput(extractFromSentinel(gRaw')) = <<>>

\* C33 (as claimed): geminiFixSingle never returns an empty text and fixMemo
\* never holds one; when nothing is left of the response, the call returns
\* and stores the normalized block if normalization changed the block, and
\* fails with the empty-output error, the memo unchanged, otherwise
C33_NeverEmptyAsClaimed ==
    /\ []((gPc = "done" /\ gOut.kind = "ok") => gOut.text # <<>>)
    /\ [](\A k \in DOMAIN fixMemo : fixMemo[k] # <<>>)
    /\ [][EmptyResultStep
          => IF gPre # gOriginal
             THEN gOut' = [kind |-> "ok", text |-> gPre] /\ fixMemo' = MemoSet(gKey, gPre)
             ELSE gOut'.kind = "empty" /\ fixMemo' = fixMemo]_vars

\* C33: geminiFixSingle never returns an empty text and fixMemo never holds
\* one; when nothing is left of the response, the call returns and stores the
\* normalized block if normalization changed the block and left it non-empty,
\* and fails with the empty-output error, the memo unchanged, otherwise
C33_NeverEmpty ==
    /\ []((gPc = "done" /\ gOut.kind = "ok") => gOut.text # <<>>)
    /\ [](\A k \in DOMAIN fixMemo : fixMemo[k] # <<>>)
    /\ [][EmptyResultStep
          => IF gPre # gOriginal /\ gPre # <<>>
             THEN gOut' = [kind |-> "ok", text |-> gPre] /\ fixMemo' = MemoSet(gKey, gPre)
             ELSE gOut'.kind = "empty" /\ fixMemo' = fixMemo]_vars

\* the response was a fenced nothing, the block a label with a break tag:
\* the normalized block was returned and stored
C33_Witness ==
    /\ gPc = "done"
    /\ gRaw = Fence
    /\ gOriginal = <<"[", "<", "b", "r", ">", "]">>
    /\ gOut = [kind |-> "ok", text |-> gPre]
    /\ gPre # gOriginal
    /\ gKey \in DOMAIN fixMemo
    /\ fixMemo[gKey] = gPre

\* C34 (as claimed): a conditional rule is in the prompt that geminiFixSingle
\* sends exactly when its trigger is in the block the call was made for or in
\* the error message; so the rule about HTML breaks is in the prompt of every
\* block that holds a break tag
C34_RuleIffTrigger ==
    gPc = "asked" =>
        /\ gPrompt.rules = DynamicRules(gOriginal, gErrorMsg)
        /\ HasBrTag(gOriginal) => "html" \in gPrompt.rules

\* the lines of a text
LinesOf(s) == SplitCrLf(s, 0, 0)

\* the line w is a line of s
HasLine(s, w) == \E i \in 1..Len(LinesOf(s)) : LinesOf(s)[i] = w

\* a line BEGIN_MERMAID and after it a line END_MERMAID
HasMarkerPair(s) ==
    \E i, j \in 1..Len(LinesOf(s)) :
        i < j /\ LinesOf(s)[i] = BeginMarker /\ LinesOf(s)[j] = EndMarker

\* the lines l[i], ..., l[j] with a newline between two of them
RECURSIVE JoinLines(_, _, _)
JoinLines(l, i, j) ==
    IF i > j THEN <<>>
    ELSE IF i = j THEN l[i]
    ELSE l[i] \o <<"\n">> \o JoinLines(l, i + 1, j)

\* what lies between the first line BEGIN_MERMAID and the first line
\* END_MERMAID after it
BetweenMarkers(s) ==
    LET l == LinesOf(s)
        i == CHOOSE i \in 1..Len(l) :
                 l[i] = BeginMarker /\ \A k \in 1..(i - 1) : l[k] # BeginMarker
        j == CHOOSE j \in (i + 1)..Len(l) :
                 l[j] = EndMarker /\ \A k \in (i + 1)..(j - 1) : l[k] # EndMarker
    IN JoinLines(l, i + 1, j - 1)

\* C35 (as claimed): when the response holds both marker lines, the text that
\* the call returns is what lies between the first pair of them, sanitized,
\* and holds neither marker line; when nothing lies between them the result
\* counts as empty (the normalized block is returned, or the call fails)
C35_OnlyBetweenMarkers ==
    (gPc = "done" /\ ~gHit /\ gOut.kind # "failed" /\ HasMarkerPair(gRaw)) =>
        LET between == sanitizeMermaidOutput(BetweenMarkers(gRaw))
        IN /\ between # <<>> => gOut = [kind |-> "ok", text |-> between]
           /\ between = <<>> => (gOut.kind = "empty" \/ gOut.text = gPre)
           /\ ~HasLine(gOut.text, BeginMarker)
           /\ ~HasLine(gOut.text, EndMarker)

\* C40 (as claimed): a call that returns the entry of the memo has the tuple
\* (apiVersion, model, diagram type, normalized block, error message) of the
\* call that stored the entry, component by component
C40_HitOnlyOnEqualTuple ==
    (gPc = "done" /\ gHit) => TupleOf(gOriginal, gErrorMsg) = gMemoFrom

(***************************************************************************)
(* The specifications.                                                     *)
(***************************************************************************)
\* a fix command runs
Init == OrchInit /\ ApplyIdle /\ ExtractIdle /\ NormIdle /\ PreIdle /\ HookIdle /\ ClientIdle /\ InitDirIdle /\ ClsIdle /\ FixSingleIdle

Next == OrchNext

Spec == Init /\ [][Next]_vars

\* the commands in a surrounding that moves: the oracle can go away and the
\* user can type in the document while a command is suspended
SpecEnv == Init /\ [][OrchEnvNext]_vars

\* the appliers run on a text and a list of replacements
InitApply == OrchIdle /\ ApplyInit /\ ExtractIdle /\ NormIdle /\ PreIdle /\ HookIdle /\ ClientIdle /\ InitDirIdle /\ ClsIdle /\ FixSingleIdle

SpecApply == InitApply /\ [][ApplyNext]_vars

\* extractMermaidBlocks runs on a document
InitExtract == OrchIdle /\ ApplyIdle /\ ExtractInit /\ NormIdle /\ PreIdle /\ HookIdle /\ ClientIdle /\ InitDirIdle /\ ClsIdle /\ FixSingleIdle

SpecExtract == InitExtract /\ [][ExtractNext]_vars

\* the normalization of the correction client runs on a text
InitNorm == OrchIdle /\ ApplyIdle /\ ExtractIdle /\ NormInit /\ PreIdle /\ HookIdle /\ ClientIdle /\ InitDirIdle /\ ClsIdle /\ FixSingleIdle

SpecNorm == InitNorm /\ [][NormNext]_vars

\* the normalization of the validator runs on a text
InitPre == OrchIdle /\ ApplyIdle /\ ExtractIdle /\ NormIdle /\ PreInit /\ HookIdle /\ ClientIdle /\ InitDirIdle /\ ClsIdle /\ FixSingleIdle

SpecPre == InitPre /\ [][PreNext]_vars

\* calls of validateMermaidAsync run, one command's between another's
InitHook == OrchIdle /\ ApplyIdle /\ ExtractIdle /\ NormIdle /\ PreIdle /\ HookInit /\ ClientIdle /\ InitDirIdle /\ ClsIdle /\ FixSingleIdle

SpecHook == InitHook /\ [][HookNext]_vars

\* calls of geminiFixSingle run, one command's between another's
InitClient ==
    OrchIdle /\ ApplyIdle /\ ExtractIdle /\ NormIdle /\ PreIdle /\ HookIdle /\ ClientInit /\ InitDirIdle /\ ClsIdle /\ FixSingleIdle

SpecClient == InitClient /\ [][ClientNext]_vars

\* extractMermaidBlocks runs on one fenced block of some language
InitExtractTagged ==
    /\ OrchIdle /\ ApplyIdle /\ ExtractInitTagged /\ NormIdle /\ PreIdle /\ HookIdle
    /\ ClientIdle /\ InitDirIdle /\ ClsIdle /\ FixSingleIdle

SpecExtractTagged == InitExtractTagged /\ [][ExtractNext]_vars

\* the appliers run on a text and any list
InitApplyAny ==
    /\ OrchIdle /\ ApplyInitAny /\ ExtractIdle /\ NormIdle /\ PreIdle /\ HookIdle
    /\ ClientIdle /\ InitDirIdle /\ ClsIdle /\ FixSingleIdle

SpecApplyAny == InitApplyAny /\ [][ApplyNext]_vars

\* preserveInitIfNeeded runs on a block and a corrected text
InitInitDir ==
    /\ OrchIdle /\ ApplyIdle /\ ExtractIdle /\ NormIdle /\ PreIdle /\ HookIdle
    /\ ClientIdle /\ InitDirInit /\ ClsIdle /\ FixSingleIdle

SpecInitDir == InitInitDir /\ [][InitDirNext]_vars

\* the service answers or the timer of withTimeout fires, the validator
\* answers, and the code between two awaits runs
FairSpec ==
    /\ Spec
    /\ WF_vars(Call)
    /\ WF_vars(Respond)
    /\ WF_vars(Validate)

\* as FairSpec, and every step of the commands that does not wait for the
\* user is taken: the code between two awaits, saveData, the 200 ms timers
FairUiSpec ==
    /\ FairSpec
    /\ WF_vars(StartFix) /\ WF_vars(CaptureFile) /\ WF_vars(BlockStartFix)
    /\ WF_vars(AfterLoopFix) /\ WF_vars(ApplyFix)
    /\ WF_vars(StartAll) /\ WF_vars(FileStart) /\ WF_vars(BlockStartAll)
    /\ WF_vars(AfterLoopAll) /\ WF_vars(ModifyFile)
    /\ WF_vars(SaveDone) /\ WF_vars(ModalRemoved) /\ WF_vars(OldModalsRemoved)

\* callGeminiSingle runs on a response
InitCls ==
    /\ OrchIdle /\ ApplyIdle /\ ExtractIdle /\ NormIdle /\ PreIdle /\ HookIdle
    /\ ClientIdle /\ InitDirIdle /\ ClsInit /\ FixSingleIdle

SpecCls == InitCls /\ [][ClsNext]_vars

\* a call of geminiFixSingle runs on a block, an error message and a response
InitFixSingle ==
    /\ OrchIdle /\ ApplyIdle /\ ExtractIdle /\ NormIdle /\ PreIdle /\ HookIdle
    /\ CallsIdle /\ InitDirIdle /\ ClsIdle /\ FixSingleInit

SpecFixSingle == InitFixSingle /\ [][FixSingleNext]_vars

(***************************************************************************)
(* Claims about the commands.                                              *)
(***************************************************************************)
\* the attempt loop of the current block is running
InAttemptLoop == pc \in {"call", "net", "validate"}

\* the block was processed and its iteration is over
BlockOver(b) ==
    /\ phase[b] # "todo"
    /\ ~(b = blk /\ pc \in {"call", "net", "validate", "afterLoop"})

\* C1: the attempt loop of a block makes at most maxAttempts correction calls
\* (5 in runFixWithGemini, 3 in runFixAllFilesWithGemini); a block whose
\* iteration is over has a candidate that the validator accepted (shown in the
\* preview or queued) or a failure report; and under fairness of the service
\* and the validator a running attempt loop ends
C1_RetryTerminates ==
    /\ [](calls <= maxAttempts /\ attempt <= maxAttempts + 1)
    /\ [](\A b \in 1..MaxBlocks : BlockOver(b) => phase[b] \in {"preview", "queued", "failed"})
    /\ (InAttemptLoop ~> ~InAttemptLoop)

\* a block used all its attempts (each candidate rejected by the validator)
\* and was reported as failed, in both commands' bounds
C1_Witness ==
    /\ mode = "fix"
    /\ pc = "afterLoop"
    /\ calls = maxAttemptsFix
    /\ attempt = maxAttemptsFix + 1
    /\ lastResp = "ok"
    /\ ~success

\* C2 (as claimed): a soft error of a correction call while attempts remain
\* is followed by the next attempt on the same block
C2_SoftErrorIsRetried ==
    [][(pc = "net" /\ pc' # "net" /\ lastResp' \in SoftKinds
          /\ LoopContinues(attempt + 1, maxAttempts))
       => (pc' = "call" /\ blk' = blk /\ attempt' = attempt + 1 /\ ~cancelled')]_vars

\* C3: in runFixWithGemini, once a correction call failed with a hard error no
\* correction call is made, no request is in flight and applyReplacementsReverse
\* is not called: nothing is written, the fixes queued before included
C3_HardErrorAbortsFix ==
    [][(mode = "fix" /\ hardAbort)
       => (calls' <= calls /\ inFlight' = 0 /\ written = <<>> /\ written' = <<>>)]_vars

\* the command ended after a hard error with a fix of an earlier block queued
C3_Witness ==
    /\ mode = "fix"
    /\ hardAbort
    /\ pc = "done"
    /\ Len(replacements) > 0
    /\ written = <<>>

\* C4 (as claimed): in runFixAllFilesWithGemini, once a correction call failed
\* with a hard error no correction call is made and no file is modified
C4_HardErrorAbortsAll ==
    [][(mode = "fixAll" /\ hardAbort)
       => (calls' <= calls /\ modified' = modified)]_vars

\* C5: at most one correction call is in flight, and the blocks of a document
\* are processed one after another in ascending index: when a block has been
\* started every earlier block is finished (its fix queued or its failure
\* reported, its preview decided), and at most one block is under way
C5_Sequential ==
    /\ inFlight <= 1
    /\ \A i, j \in 1..MaxBlocks :
         (i < j /\ phase[j] # "todo") => phase[i] \in {"queued", "failed"}
    /\ Cardinality({b \in 1..MaxBlocks : phase[b] \in {"fixing", "accepted", "preview"}}) <= 1

\* the request of block 2 is in flight after the preview of block 1 was
\* decided, the modal of block 1 still closing
C5_Witness ==
    /\ blk = 2
    /\ pc = "net"
    /\ inFlight = 1
    /\ phase[1] = "queued"
    /\ 1 \in closingModals

\* the note that is active when runFixWithGemini is called
FileAtStart == "A"

\* C17 (as claimed): when runFixWithGemini is about to start a block and the
\* active file is not the file that was active when the command started, it
\* ends as cancelled without starting the block; and once it is cancelled no
\* correction call is made and nothing is written, the fixes queued for
\* earlier blocks included
C17_StopsWhenFileChanged ==
    /\ [][(mode = "fix" /\ pc = "blockStart" /\ blk <= errCount /\ activeFile # FileAtStart)
           => (cancelled' /\ pc' = "apply" /\ phase' = phase)]_vars
    /\ [][(mode = "fix" /\ cancelled)
           => (calls' <= calls /\ inFlight' = 0 /\ written = <<>> /\ written' = <<>>)]_vars

\* C22 (as claimed): once a control of the preview modal of the block that the
\* command waits for was used (the modal is no longer shown), the command goes
\* on: it does not stay suspended on the preview
C22_PreviewYieldsOutcome ==
    (pc = "preview" /\ blk \notin openModals) ~> (pc # "preview")

\* C25 (as claimed): once a validation has returned the oracle-unavailable
\* result, the command makes no correction call: the block is not sent for
\* correction and no attempt is retried
C25_UnavailableStops ==
    [][unavailable => ~(calls' > calls)]_vars

\* C27 (as claimed): when runFixWithGemini writes the replacements into the
\* editor, the active file is the file that was active when the command
\* started
C27_NoWriteAfterSwitch ==
    [][(mode = "fix" /\ written = <<>> /\ written' # <<>>) => activeFile = FileAtStart]_vars

\* C28 (as claimed): when the queued replacements are written
\* (applyReplacementsReverse, vault.modify), the document is as the command
\* read it: no text changed in the meantime is overwritten
C28_TargetUnchangedAtWrite ==
    [][((written = <<>> /\ written' # <<>>) \/ modified' # modified) => ~docEdited]_vars

\* no block occurs twice in the list
NoBlockTwice(list) ==
    \A i, j \in 1..Len(list) : i # j => list[i] # list[j]

\* C29 (as claimed): the list handed to the applier (applyReplacementsReverse
\* in runFixWithGemini, applyReplacementsToContent in
\* runFixAllFilesWithGemini) holds at most one replacement per block
C29_OneReplacementPerBlock ==
    /\ [](NoBlockTwice(written))
    /\ [][(pc = "blockStart" /\ pc' = "modify") => NoBlockTwice(replacements)]_vars

\* C30 (as claimed): fixMemo never holds a candidate that the validator
\* rejected, and every attempt after a failed validation gets its candidate
\* from a new request
C30_MemoHoldsAcceptedOnly ==
    /\ [](~memoRejected)
    /\ [][(pc = "call" /\ attempt > 1 /\ calls' > calls) => inFlight' > inFlight]_vars

\* C31 (as claimed): a correction call that fails makes the command abort the
\* whole batch (cancelled) exactly when the failure is of a hard kind
\* (authentication, model not found, response not parseable), whatever text of
\* the service the error message embeds
C31_AbortIffHardKind ==
    [][(pc = "net" /\ pc' # "net" /\ lastResp' # "ok")
       => (cancelled' <=> lastResp' \in HardKinds)]_vars

Occurrences(list, b) == Cardinality({i \in 1..Len(list) : list[i] = b})

\* C39 (as claimed): "以後自動適用" stores the apply mode auto and turns the
\* rest of the operation to auto-apply: from then on a block that was fixed
\* successfully is queued without a preview; the fix of the block of the
\* preview is queued once, by the callback or by nothing else; "置換" queues
\* the fix of the current block only and leaves the apply mode as it is
C39_AutoApplyFromPreview ==
    /\ [][ClickAutoApply => (applyMode' = "auto" /\ autoApply')]_vars
    /\ [][(autoApply /\ pc # "fileStart") => autoApply']_vars
    /\ [][(pc = "afterLoop" /\ autoApply /\ success /\ ~cancelled)
          => /\ openModals' = openModals
             /\ replacements' = Append(replacements, blk)]_vars
    /\ [][SaveDone => /\ Occurrences(replacements, Head(saving)[2]) = 0
                      /\ Occurrences(replacements', Head(saving)[2]) = 1]_vars
    /\ [][ClickReplace => /\ replacements' = Append(replacements, blk)
                          /\ Occurrences(replacements, blk) = 0
                          /\ applyMode' = applyMode
                          /\ autoApply' = autoApply]_vars

====
